---- MODULE Spec2Model ----
(***************************************************************************)
(* Ingestion / dedup / vector-index pipeline of newfan_finance.            *)
(*                                                                         *)
(* Strings are sequences of one-character strings.  The ideographic space  *)
(* U+3000 is the character IDSP.  SHA-256 is an injective tagging of its   *)
(* input (collisions are not modelled).                                    *)
(***************************************************************************)
EXTENDS Integers, Sequences, FiniteSets, TLC

VARIABLES
    hCase,      \* pure functions: the input case under evaluation
    hOut,       \* pure functions: the computed result
    hDone,      \* pure functions: TRUE once the call has returned
    store,      \* primary store: url_hash -> stored ProcessedArticle
    batch,      \* article ingestor: the S3 event records of each invocation
    idx,        \* article ingestor: index of the record the handler loop is at
    pc,         \* article ingestor: position of each invocation
    pending,    \* article ingestor: the article upsertArticle is about to put
    outcome,    \* article ingestor: what happened to each record so far
    cats,       \* article ingestor: processedCategories, in insertion order
    inval,      \* article ingestor: categories invalidateCacheForTopic was called for
    index,      \* vector index: key -> [embedding, metadata]
    sBatch,     \* stream ingestor: the change-feed records of the invocation
    sPc,        \* stream ingestor: position of the handler
    results,    \* stream ingestor: the IngestionStatus of each record so far
    sFaults,    \* stream ingestor: the call that failed for each record so far
    embedCalls, \* stream ingestor: records generateEmbedding was called for
    ioLog,      \* stream ingestor and backfill: the calls of generateEmbedding made
                \* and the sleeps taken, in order
    putCalls,   \* stream ingestor: records putVector was called for
    logWrite,   \* stream ingestor: how logIngestion's write to the audit sink went
    auditLog,   \* audit sink: the log entries persisted
    lastPut,    \* vector index writer: key -> input of the last completed put
    putFailed,  \* vector index writer: TRUE once a put call has thrown
    bfPages,    \* backfill: the pages the scan of the primary store returns
    bfDryRun,   \* backfill: options.dryRun
    bfPc,       \* backfill: position of the run
    bfPage,     \* backfill: number of pages scanned so far
    bfItem,     \* backfill: index in the page of the item the loop is at
    stats,      \* backfill: BackfillStats
    pendingVectors, \* backfill: the buffer of vectors not yet flushed
    attempt,    \* backfill: flushVectorsBatch's attempt counter
    flushLog,   \* backfill: how the attempts of the current or last flush went
    flushStart, \* backfill: stats and vectors as flushVectorsBatch was called
    flushCalls, \* backfill: the batches flushVectorsBatch was called with, in order
    firstRun,   \* backfill: index and stats at the end of an earlier run
    today,      \* the day of the wall clock, as an index into Days
    agIn,       \* search agent: mode, rewriter output, index responses, similarities
    agPc,       \* search agent: position of the answering chain
    agFailed,   \* search agent: whether each executed sub-query failed
    agCalls,    \* search agent: the retrieval-stage calls issued so far
    agSearch,   \* search agent: searchResults, one list per executed sub-query
    agDocs,     \* search agent: the documents the retriever chain returned
    agSources,  \* search agent: the output of FinalSourceRetriever
    agEvents,   \* search agent: what the emitter has emitted, in order
    redisUp,    \* cache: TRUE when the redis client is not null
    redis,      \* cache: remote tier, key -> [data, expiresAt]
    memoryCache, \* cache: local tier, entries [key, data, timestamp] in insertion order
    now,        \* cache: Date.now(), in units of time
    lastCall,   \* cache: the last call of the cache service and what it returned
    lastSet,    \* cache: key -> time and ttl of the last cacheSet of the key
    listings,   \* data source: category -> number of articles stored for it
    webPc,      \* web process: position of fetchArticles
    webServed,  \* web process: the listing fetchArticles returned last
    lastIngest  \* article ingestor: its last insertion and cache invalidation

hashVars == <<hCase, hOut, hDone>>
ingestVars == <<store, batch, idx, pc, pending, outcome, cats, inval>>
streamVars == <<sBatch, sPc, results, sFaults, embedCalls, ioLog, putCalls, logWrite, auditLog>>
writerVars == <<lastPut, putFailed>>
bfVars == <<bfPages, bfDryRun, bfPc, bfPage, bfItem, stats, pendingVectors, attempt,
            flushLog, flushStart, flushCalls, firstRun, today>>
agVars == <<agIn, agPc, agFailed, agCalls, agSearch, agDocs, agSources, agEvents>>
cacheVars == <<redisUp, redis, memoryCache, now, lastCall, lastSet>>
listingVars == <<listings, webPc, webServed, lastIngest>>
vars == <<hCase, hOut, hDone, store, batch, idx, pc, pending, outcome, cats, inval,
          index, sBatch, sPc, results, sFaults, embedCalls, ioLog, putCalls, logWrite, auditLog,
          lastPut, putFailed, bfPages, bfDryRun, bfPc, bfPage, bfItem, stats,
          pendingVectors, attempt, flushLog, flushStart, flushCalls, firstRun, today,
          agIn, agPc, agFailed, agCalls, agSearch, agDocs, agSources, agEvents,
          redisUp, redis, memoryCache, now, lastCall, lastSet,
          listings, webPc, webServed, lastIngest>>

NoValue == [none |-> TRUE]

(***************************************************************************)
(* String primitives (ECMAScript String.prototype.* as used by the code)   *)
(***************************************************************************)
IDSP == "IDSP"

\* WhiteSpace of ECMAScript restricted to the modelled alphabet: both
\* String.prototype.trim and the regex class \s contain U+0020, U+3000 and LF.
IsSpace(c) == c \in {" ", IDSP, "\n"}

RECURSIVE TrimStart(_)
TrimStart(s) ==
    IF s # <<>> /\ IsSpace(Head(s)) THEN TrimStart(Tail(s)) ELSE s

RECURSIVE TrimEnd(_)
TrimEnd(s) ==
    IF s # <<>> /\ IsSpace(s[Len(s)]) THEN TrimEnd(SubSeq(s, 1, Len(s) - 1)) ELSE s

\* String.prototype.trim
Trim(s) == TrimEnd(TrimStart(s))

StartsWith(s, pat) == Len(s) >= Len(pat) /\ SubSeq(s, 1, Len(pat)) = pat

\* s.replace(/pat/g, rep) for a literal pattern: left to right, non-overlapping
RECURSIVE ReplaceAll(_, _, _)
ReplaceAll(s, pat, rep) ==
    IF s = <<>> THEN <<>>
    ELSE IF StartsWith(s, pat)
         THEN rep \o ReplaceAll(SubSeq(s, Len(pat) + 1, Len(s)), pat, rep)
         ELSE <<Head(s)>> \o ReplaceAll(Tail(s), pat, rep)

\* s.replace(/\/$/, ''): drops one '/' at the very end of the string
StripTrailingSlash(s) ==
    IF s # <<>> /\ s[Len(s)] = "/" THEN SubSeq(s, 1, Len(s) - 1) ELSE s

\* s.split('?')[0]: the part before the first '?'
RECURSIVE BeforeQuery(_)
BeforeQuery(s) ==
    IF s = <<>> \/ Head(s) = "?" THEN <<>>
    ELSE <<Head(s)>> \o BeforeQuery(Tail(s))

\* s.replace(/\s+/g, ' '): every maximal run of white space becomes one ' '
RECURSIVE CollapseSpaces(_)
CollapseSpaces(s) ==
    IF s = <<>> THEN <<>>
    ELSE IF IsSpace(Head(s))
         THEN <<" ">> \o CollapseSpaces(TrimStart(Tail(s)))
         ELSE <<Head(s)>> \o CollapseSpaces(Tail(s))

UpperCase == {"A", "B", "M", "P"}
LowerOf(c) ==
    CASE c = "A" -> "a"
      [] c = "B" -> "b"
      [] c = "M" -> "m"
      [] c = "P" -> "p"
      [] OTHER -> c

\* String.prototype.toLowerCase
ToLowerCase(s) == [i \in 1..Len(s) |-> LowerOf(s[i])]

\* createHash('sha256').update(x).digest('hex')
Sha256(x) == <<"sha256", x>>

(***************************************************************************)
(* Identity hasher                                                         *)
(***************************************************************************)
\* the normalisation inside generateUrlHash
NormalizedUrl(url) == BeforeQuery(StripTrailingSlash(Trim(url)))

generateUrlHash(url) == Sha256(NormalizedUrl(url))

\* the normalisation inside generateTitleHash
NormalizedTitle(title) ==
    ToLowerCase(CollapseSpaces(ReplaceAll(Trim(title), <<IDSP>>, <<" ">>)))

generateTitleHash(title) == Sha256(NormalizedTitle(title))

\* the normalisation inside articleDetailKey (same expression as generateUrlHash)
DetailKeyNormalizedUrl(url) == BeforeQuery(StripTrailingSlash(Trim(url)))

(***************************************************************************)
(* Inputs of the identity hasher                                           *)
(***************************************************************************)
MaxUrlLen == 4
MaxTitleLen == 3

RECURSIVE StringsUpTo(_, _)
StringsUpTo(alphabet, n) ==
    IF n = 0 THEN {<<>>}
    ELSE LET shorter == StringsUpTo(alphabet, n - 1)
         IN  shorter \cup {<<c>> \o s : c \in alphabet, s \in {t \in shorter : Len(t) = n - 1}}

UrlAlphabet == {"a", "/", "?", " "}
TitleAlphabet == {"a", "A", "b", " ", IDSP}

Urls == StringsUpTo(UrlAlphabet, MaxUrlLen)
Titles == StringsUpTo(TitleAlphabet, MaxTitleLen)

\* A path: no query, no surrounding white space, not empty, no trailing slash
Paths == {u \in StringsUpTo({"a", "/"}, MaxUrlLen - 2) : u # <<>> /\ u[Len(u)] # "/"}
Queries == {<<>>, <<"a">>}

\* The four spellings of one resource: 'h/a', 'h/a/', 'h/a?x=1', 'h/a/?x=1'
UrlSpellings == {"plain", "slash", "query", "slashquery"}
Spell(path, query, how) ==
    CASE how = "plain"      -> path
      [] how = "slash"      -> path \o <<"/">>
      [] how = "query"      -> path \o <<"?">> \o query
      [] how = "slashquery" -> path \o <<"/", "?">> \o query

\* The words of a title: maximal runs of non-space characters, lower-cased
RECURSIVE WordsOf(_, _)
WordsOf(s, word) ==
    IF s = <<>> THEN (IF word = <<>> THEN <<>> ELSE <<word>>)
    ELSE IF IsSpace(Head(s))
         THEN (IF word = <<>> THEN <<>> ELSE <<word>>) \o WordsOf(Tail(s), <<>>)
         ELSE WordsOf(Tail(s), word \o <<LowerOf(Head(s))>>)

\* Two titles differ only by letter case and/or white space
SameTitleUpToCaseAndSpace(t1, t2) == WordsOf(t1, <<>>) = WordsOf(t2, <<>>)

HashCases ==
    [kind : {"urlPair"}, path : Paths, query : Queries, a : UrlSpellings, b : UrlSpellings]
    \cup [kind : {"titlePair"},
          a : Titles, b : StringsUpTo(TitleAlphabet, MaxTitleLen - 1)]
    \cup [kind : {"urlTwice"}, x : Urls]
    \cup [kind : {"titleTwice"}, x : Titles]

InitHash ==
    /\ hCase \in HashCases
    /\ hOut = NoValue
    /\ hDone = FALSE

IdleHash ==
    /\ hCase = NoValue
    /\ hOut = NoValue
    /\ hDone = FALSE

\* generateUrlHash applied to two spellings of one resource
HashUrlPair ==
    /\ ~hDone
    /\ hCase.kind = "urlPair"
    /\ hOut' = [a |-> generateUrlHash(Spell(hCase.path, hCase.query, hCase.a)),
                b |-> generateUrlHash(Spell(hCase.path, hCase.query, hCase.b))]
    /\ hDone' = TRUE
    /\ UNCHANGED hCase

\* generateTitleHash applied to two titles
HashTitlePair ==
    /\ ~hDone
    /\ hCase.kind = "titlePair"
    /\ hOut' = [a |-> generateTitleHash(hCase.a), b |-> generateTitleHash(hCase.b)]
    /\ hDone' = TRUE
    /\ UNCHANGED hCase

\* the URL normalisation applied once and applied to its own result
NormalizeUrlTwice ==
    /\ ~hDone
    /\ hCase.kind = "urlTwice"
    /\ hOut' = [once  |-> NormalizedUrl(hCase.x),
                twice |-> NormalizedUrl(NormalizedUrl(hCase.x)),
                keyOnce  |-> DetailKeyNormalizedUrl(hCase.x),
                keyTwice |-> DetailKeyNormalizedUrl(DetailKeyNormalizedUrl(hCase.x))]
    /\ hDone' = TRUE
    /\ UNCHANGED hCase

\* the title normalisation applied once and applied to its own result
NormalizeTitleTwice ==
    /\ ~hDone
    /\ hCase.kind = "titleTwice"
    /\ hOut' = [once  |-> NormalizedTitle(hCase.x),
                twice |-> NormalizedTitle(NormalizedTitle(hCase.x))]
    /\ hDone' = TRUE
    /\ UNCHANGED hCase

NextHash ==
    \/ HashUrlPair /\ UNCHANGED <<ingestVars, index, streamVars, writerVars, bfVars, agVars, cacheVars, listingVars>>
    \/ HashTitlePair /\ UNCHANGED <<ingestVars, index, streamVars, writerVars, bfVars, agVars, cacheVars, listingVars>>
    \/ NormalizeUrlTwice /\ UNCHANGED <<ingestVars, index, streamVars, writerVars, bfVars, agVars, cacheVars, listingVars>>
    \/ NormalizeTitleTwice /\ UNCHANGED <<ingestVars, index, streamVars, writerVars, bfVars, agVars, cacheVars, listingVars>>

(***************************************************************************)
(* Dedup writer and article ingestor (S3 event handler)                    *)
(***************************************************************************)
Procs == {1, 2}

\* decodeHtmlEntities: six global replaces, in the order of the source
decodeHtmlEntities(text) ==
    LET s1 == ReplaceAll(text, <<"&", "a", "m", "p", ";">>, <<"&">>)
        s2 == ReplaceAll(s1, <<"&", "l", "t", ";">>, <<"<">>)
        s3 == ReplaceAll(s2, <<"&", "g", "t", ";">>, <<">">>)
        s4 == ReplaceAll(s3, <<"&", "q", "u", "o", "t", ";">>, <<"\"">>)
        s5 == ReplaceAll(s4, <<"&", "#", "3", "9", ";">>, <<"'">>)
    IN  ReplaceAll(s5, <<"&", "n", "b", "s", "p", ";">>, <<" ">>)

\* processArticle: the fields of ProcessedArticle that identify the record
\* (content, thumbnail, dates and ttl take no part in dedup)
processArticle(item, s3Key) ==
    LET decodedTitle == decodeHtmlEntities(item.title)
    IN  [url_hash   |-> generateUrlHash(item.link),
         title_hash |-> generateTitleHash(decodedTitle),
         url        |-> item.link,
         title      |-> decodedTitle,
         category   |-> item.category,
         s3Key      |-> s3Key]

\* isDuplicate with the count compared off by one (Limit 1 caps Count at 1)
isDuplicateOffByOne(table, titleHash) ==
    Cardinality({h \in DOMAIN table : table[h].title_hash = titleHash}) > 1

\* isDuplicate: Query on title_hash-index, Count > 0
isDuplicate(table, titleHash) ==
    \E h \in DOMAIN table : table[h].title_hash = titleHash

\* a put that keeps an existing item (as under attribute_not_exists(url_hash))
PutItemIfAbsent(table, article) ==
    [h \in DOMAIN table \cup {article.url_hash} |->
        IF h \in DOMAIN table THEN table[h] ELSE article]

\* PutCommand: Item replaces whatever is stored under its primary key url_hash
PutItem(table, article) ==
    [h \in DOMAIN table \cup {article.url_hash} |->
        IF h = article.url_hash THEN article ELSE table[h]]

\* handler: the loop moves to the next record, and past the last one to the
\* invalidation of the processed categories
AfterRecord(p, result, category) ==
    /\ outcome' = [outcome EXCEPT ![p] = Append(@, result)]
    /\ idx' = [idx EXCEPT ![p] = @ + 1]
    /\ cats' = [cats EXCEPT ![p] =
            IF category # "" /\ ~(\E i \in 1..Len(@) : @[i] = category)
            THEN Append(@, category) ELSE @]
    /\ pc' = [pc EXCEPT ![p] =
            IF idx[p] + 1 > Len(batch[p]) THEN "invalidate" ELSE "record"]

\* processRecord's catch block returning the category of the failed record
RecordFailedKeepCategory(p) ==
    AfterRecord(p, "error", batch[p][idx[p]].item.category)

\* processRecord's catch block: the error is logged and null is returned
RecordFailed(p) == AfterRecord(p, "error", "")

\* processRecord up to the answer of isDuplicate's query: key filters, GetObject,
\* JSON.parse, processArticle, and upsertArticle's duplicate check
ProcessRecord(p) ==
    /\ pc[p] = "record"
    /\ LET r == batch[p][idx[p]]
           a == processArticle(r.item, <<p, idx[p]>>)
       IN  \E fault \in {"none", "get", "query"} :
            IF r.ext # ".json" THEN
                fault = "none" /\ AfterRecord(p, "not_json", "") /\ UNCHANGED <<store, pending>>
            ELSE IF r.dir # "prna/items/" THEN
                fault = "none" /\ AfterRecord(p, "outside_prefix", "") /\ UNCHANGED <<store, pending>>
            ELSE IF fault = "get" THEN
                RecordFailed(p) /\ UNCHANGED <<store, pending>>
            ELSE IF r.body = "empty" THEN
                fault = "none" /\ AfterRecord(p, "empty_content", "") /\ UNCHANGED <<store, pending>>
            ELSE IF r.body = "malformed" \/ fault = "query" THEN
                RecordFailed(p) /\ UNCHANGED <<store, pending>>
            ELSE IF isDuplicate(store, a.title_hash) THEN
                AfterRecord(p, "skipped_duplicate", "") /\ UNCHANGED <<store, pending>>
            ELSE
                /\ pc' = [pc EXCEPT ![p] = "put"]
                /\ pending' = [pending EXCEPT ![p] = a]
                /\ UNCHANGED <<store, idx, outcome, cats>>
    /\ UNCHANGED <<batch, inval>>

\* upsertArticle's PutCommand and the rest of processRecord
PutArticle(p) ==
    /\ pc[p] = "put"
    /\ \E fault \in {"none", "put"} :
        IF fault = "put" THEN
            RecordFailed(p) /\ UNCHANGED store
        ELSE
            /\ store' = PutItem(store, pending[p])
            /\ AfterRecord(p, "inserted", pending[p].category)
    /\ pending' = [pending EXCEPT ![p] = NoValue]
    /\ UNCHANGED <<batch, inval>>

\* handler: one invalidateCacheForTopic call of the loop over processedCategories
InvalidateCategory(p) ==
    /\ pc[p] = "invalidate"
    /\ Len(inval[p]) < Len(cats[p])
    /\ inval' = [inval EXCEPT ![p] = Append(@, cats[p][Len(@) + 1])]
    /\ UNCHANGED <<store, batch, idx, pc, pending, outcome, cats>>

\* handler returns
HandlerReturn(p) ==
    /\ pc[p] = "invalidate"
    /\ Len(inval[p]) = Len(cats[p])
    /\ pc' = [pc EXCEPT ![p] = "done"]
    /\ UNCHANGED <<store, batch, idx, pending, outcome, cats, inval>>

(***************************************************************************)
(* Inputs of the article ingestor                                          *)
(***************************************************************************)
MaxBatch == 2

TAmp == <<"&", "a", "m", "p", ";">>
TAmpUpper == <<"&", "A", "M", "P", ";">>
IngestTitles == {TAmp, TAmpUpper, <<"&">>, <<" ", "A", IDSP>>, <<"a">>}
IngestLinks == {<<"a">>, <<"a", "/">>, <<"b">>}

CategoryOf(link) == IF Head(link) = "b" THEN "market" ELSE "finance"

Items == {[title |-> t, link |-> l, category |-> CategoryOf(l)] :
            t \in IngestTitles, l \in IngestLinks}
FewItems == {it \in Items : it.title \in {TAmp, <<"a">>} /\ it.link \in {<<"a">>, <<"b">>}}

AnItem == [title |-> <<"a">>, link |-> <<"a">>, category |-> "finance"]

ItemRecords(items) ==
    {[dir |-> "prna/items/", ext |-> ".json", body |-> "json", item |-> it] : it \in items}
OtherRecords ==
    {[dir |-> "prna/items/", ext |-> ".xml", body |-> "json", item |-> AnItem],
     [dir |-> "prna/raw/", ext |-> ".json", body |-> "json", item |-> AnItem],
     [dir |-> "prna/items/", ext |-> ".json", body |-> "empty", item |-> AnItem],
     [dir |-> "prna/items/", ext |-> ".json", body |-> "malformed", item |-> AnItem]}

RECURSIVE SeqsUpTo(_, _)
SeqsUpTo(S, n) ==
    IF n = 0 THEN {<<>>}
    ELSE LET shorter == SeqsUpTo(S, n - 1)
         IN  shorter \cup {Append(s, x) : s \in {t \in shorter : Len(t) = n - 1}, x \in S}

StartIngest(batches) ==
    /\ batch = batches
    /\ store = <<>>
    /\ idx = [p \in Procs |-> 1]
    /\ pc = [p \in Procs |-> IF batches[p] = <<>> THEN "invalidate" ELSE "record"]
    /\ pending = [p \in Procs |-> NoValue]
    /\ outcome = [p \in Procs |-> <<>>]
    /\ cats = [p \in Procs |-> <<>>]
    /\ inval = [p \in Procs |-> <<>>]

\* one invocation over any records, a second one over at most one item
InitIngest ==
    \E b1 \in SeqsUpTo(ItemRecords(FewItems) \cup OtherRecords, MaxBatch),
       b2 \in SeqsUpTo(ItemRecords(FewItems), 1) :
        StartIngest([p \in Procs |-> IF p = 1 THEN b1 ELSE b2])

\* one invocation alone, over every spelling of the titles and links
InitDedup ==
    \E b1 \in SeqsUpTo(ItemRecords(Items) \cup OtherRecords, MaxBatch) :
        StartIngest([p \in Procs |-> IF p = 1 THEN b1 ELSE <<>>])

IdleIngest ==
    /\ batch = [p \in Procs |-> <<>>]
    /\ store = <<>>
    /\ idx = [p \in Procs |-> 1]
    /\ pc = [p \in Procs |-> "done"]
    /\ pending = [p \in Procs |-> NoValue]
    /\ outcome = [p \in Procs |-> <<>>]
    /\ cats = [p \in Procs |-> <<>>]
    /\ inval = [p \in Procs |-> <<>>]

NextIngest ==
    \/ \E p \in Procs : ProcessRecord(p) /\ UNCHANGED <<hashVars, index, streamVars, writerVars, bfVars, agVars, cacheVars, listingVars>>
    \/ \E p \in Procs : PutArticle(p) /\ UNCHANGED <<hashVars, index, streamVars, writerVars, bfVars, agVars, cacheVars, listingVars>>
    \/ \E p \in Procs : InvalidateCategory(p) /\ UNCHANGED <<hashVars, index, streamVars, writerVars, bfVars, agVars, cacheVars, listingVars>>
    \/ \E p \in Procs : HandlerReturn(p) /\ UNCHANGED <<hashVars, index, streamVars, writerVars, bfVars, agVars, cacheVars, listingVars>>

(***************************************************************************)
(* Text preprocessor                                                       *)
(***************************************************************************)
\* position of the first '>' of s, 0 when there is none
RECURSIVE IndexOfGt(_, _)
IndexOfGt(s, i) ==
    IF i > Len(s) THEN 0 ELSE IF s[i] = ">" THEN i ELSE IndexOfGt(s, i + 1)

\* s.replace(/<[^>]+>/g, ' ')
RECURSIVE StripTags(_)
StripTags(s) ==
    IF s = <<>> THEN <<>>
    ELSE IF Head(s) = "<" /\ IndexOfGt(s, 2) > 2
         THEN <<" ">> \o StripTags(SubSeq(s, IndexOfGt(s, 2) + 1, Len(s)))
         ELSE <<Head(s)>> \o StripTags(Tail(s))

\* stripHtml; the <script> and <style> patterns match nothing that can be
\* written in the modelled alphabet
stripHtml(html) ==
    LET s1 == StripTags(html)
        s2 == ReplaceAll(s1, <<"&", "n", "b", "s", "p", ";">>, <<" ">>)
        s3 == ReplaceAll(s2, <<"&", "a", "m", "p", ";">>, <<"&">>)
        s4 == ReplaceAll(s3, <<"&", "l", "t", ";">>, <<"<">>)
        s5 == ReplaceAll(s4, <<"&", "g", "t", ";">>, <<">">>)
        s6 == ReplaceAll(s5, <<"&", "q", "u", "o", "t", ";">>, <<"\"">>)
        s7 == ReplaceAll(s6, <<"&", "#", "3", "9", ";">>, <<"'">>)
    IN  Trim(CollapseSpaces(s7))

EmbeddingTextMax == 8000

\* createEmbeddingText
createEmbeddingText(title, content) ==
    LET text == stripHtml(title) \o <<"\n", "\n">> \o stripHtml(content)
    IN  SubSeq(text, 1, IF Len(text) < EmbeddingTextMax THEN Len(text) ELSE EmbeddingTextMax)

\* the days the wall clock goes through
Days == <<"d1", "d2">>

\* new Date().toISOString()
NowIso == <<Days[today], "T", "00:00:00Z">>

\* s.split('T')[0]: the part before the first 'T'
RECURSIVE BeforeT(_)
BeforeT(s) ==
    IF s = <<>> \/ Head(s) = "T" THEN <<>>
    ELSE <<Head(s)>> \o BeforeT(Tail(s))

\* a pub_date that is always the day of processing
PubDateAlwaysToday(record) == BeforeT(NowIso)

\* processArticleForVectors: const pubDate = record.pubDate ? ... : ...
PubDateOf(record) ==
    IF record.pubDate # <<>> THEN BeforeT(record.pubDate) ELSE BeforeT(NowIso)

\* processArticleForVectors
processArticleForVectors(record) ==
    [vectorKey     |-> record.url_hash,
     embeddingText |-> createEmbeddingText(record.title, record.content),
     metadata      |-> [category   |-> IF record.category = "" THEN "unknown" ELSE record.category,
                        pub_date   |-> PubDateOf(record),
                        article_id |-> record.url_hash,
                        title      |-> stripHtml(record.title),
                        url        |-> record.url]]

\* !embeddingText || embeddingText.trim().length === 0
IsEmptyText(text) == Trim(text) = <<>>

\* the embedding provider is a function of the text
EmbeddingOf(text) == <<"embedding", text>>

(***************************************************************************)
(* Vector index writer                                                     *)
(***************************************************************************)
\* one PutVectors request: every vector of the request is upserted by key (for
\* a key given twice the later vector of the request stays)
PutVectors(idxmap, vectors) ==
    [k \in DOMAIN idxmap \cup {vectors[i].key : i \in 1..Len(vectors)} |->
        IF \E i \in 1..Len(vectors) : vectors[i].key = k
        THEN LET i == CHOOSE j \in 1..Len(vectors) :
                        /\ vectors[j].key = k
                        /\ \A m \in (j + 1)..Len(vectors) : vectors[m].key # k
             IN  [embedding |-> vectors[i].embedding, metadata |-> vectors[i].metadata]
        ELSE idxmap[k]]

\* putVector: one PutVectors request holding the one vector
putVector(idxmap, input) == PutVectors(idxmap, <<input>>)

(***************************************************************************)
(* Stream ingestor (change-feed handler)                                   *)
(***************************************************************************)
\* record.eventName || 'UNKNOWN'
EventNameOf(record) == IF record.eventName = "" THEN "UNKNOWN" ELSE record.eventName

\* a mistaken target test that lets through everything but REMOVE
IsTargetEventAllButRemove(eventName) == eventName # "REMOVE"

\* eventName === 'INSERT' || eventName === 'MODIFY'
IsTargetEvent(eventName) == eventName \in {"INSERT", "MODIFY"}

\* the calls of processRecord that can throw for this record
CallsReached(record) ==
    IF ~IsTargetEvent(EventNameOf(record)) \/ ~record.hasNewImage THEN {}
    ELSE IF record.article.url = <<>>
            \/ IsEmptyText(processArticleForVectors(record.article).embeddingText)
         THEN {"unmarshall"}
         ELSE {"unmarshall", "embed", "put"}

Skipped(record, reason) ==
    [urlHash |-> record.url_hash, eventName |-> EventNameOf(record),
     status |-> "skipped", reason |-> reason]

\* handler: results.push(result), and on to the next record or to the log
StreamAfterRecord(result) ==
    /\ results' = Append(results, result)
    /\ sPc' = IF Len(results) + 1 = Len(sBatch) THEN "log" ELSE "record"

\* a catch block that throws the error on: the handler ends with it
StreamCatchRethrow(record, message) ==
    /\ sPc' = "failed"
    /\ UNCHANGED results

\* processRecord's catch block: the error becomes the record's outcome
StreamCatch(record, message) ==
    StreamAfterRecord([urlHash |-> record.url_hash, eventName |-> EventNameOf(record),
                       status |-> "error", reason |-> message])

\* one call of generateEmbedding for a record: a single request to the
\* provider, which returns the embedding or throws
EmbeddingCall(urlHash, failed) == [record |-> urlHash, event |-> "call", failed |-> failed]

\* a wait before the next step: sleep(ms)
Sleep(urlHash, ms) == [record |-> urlHash, event |-> "sleep", ms |-> ms]

\* processRecord for the next record of the batch
StreamProcessRecord ==
    /\ sPc = "record"
    /\ LET i == Len(results) + 1
           record == sBatch[i]
           processed == processArticleForVectors(record.article)
       IN  \E fault \in CallsReached(record) \cup {"none"} :
            /\ sFaults' = Append(sFaults, fault)
            /\ IF ~IsTargetEvent(EventNameOf(record)) THEN
                    /\ StreamAfterRecord(Skipped(record,
                            <<"Event type ", EventNameOf(record), " is not a target">>))
                    /\ UNCHANGED <<index, embedCalls, putCalls>>
               ELSE IF ~record.hasNewImage THEN
                    /\ StreamAfterRecord(Skipped(record, <<"No NewImage in stream record">>))
                    /\ UNCHANGED <<index, embedCalls, putCalls>>
               ELSE IF fault = "unmarshall" THEN
                    /\ StreamCatch(record, <<"unmarshall">>)
                    /\ UNCHANGED <<index, embedCalls, putCalls>>
               ELSE IF record.article.url = <<>> THEN
                    /\ StreamAfterRecord(Skipped(record, <<"No url field in article">>))
                    /\ UNCHANGED <<index, embedCalls, putCalls>>
               ELSE IF IsEmptyText(processed.embeddingText) THEN
                    /\ StreamAfterRecord(Skipped(record, <<"Empty embedding text">>))
                    /\ UNCHANGED <<index, embedCalls, putCalls>>
               ELSE IF fault = "embed" THEN
                    /\ embedCalls' = embedCalls \cup {i}
                    /\ StreamCatch(record, <<"embed">>)
                    /\ UNCHANGED <<index, putCalls>>
               ELSE IF fault = "put" THEN
                    /\ embedCalls' = embedCalls \cup {i}
                    /\ putCalls' = putCalls \cup {i}
                    /\ StreamCatch(record, <<"put">>)
                    /\ UNCHANGED index
               ELSE
                    /\ embedCalls' = embedCalls \cup {i}
                    /\ putCalls' = putCalls \cup {i}
                    /\ index' = putVector(index,
                            [key |-> processed.vectorKey,
                             embedding |-> EmbeddingOf(processed.embeddingText),
                             metadata |-> processed.metadata])
                    /\ StreamAfterRecord(
                            [urlHash |-> record.url_hash, eventName |-> EventNameOf(record),
                             status |-> "success", reason |-> <<>>])
            /\ ioLog' = IF i \in embedCalls'
                            THEN Append(ioLog, EmbeddingCall(record.url_hash, fault = "embed"))
                            ELSE ioLog
    /\ UNCHANGED <<sBatch, logWrite, auditLog>>

CountStatus(rs, status) == Cardinality({i \in 1..Len(rs) : rs[i].status = status})

\* logIngestion without its early return
ShouldLogAlways(rs) == TRUE

\* logIngestion: if (results.length === 0) return
ShouldLog(rs) == Len(rs) # 0

\* logIngestion(results) and the return of the handler; a failed write to the
\* audit sink is caught and logged to the console only
LogIngestion ==
    /\ sPc = "log"
    /\ IF ~ShouldLog(results) THEN
            /\ logWrite' = "not_attempted"
            /\ UNCHANGED auditLog
       ELSE \E written \in BOOLEAN :
            /\ logWrite' = IF written THEN "written" ELSE "failed"
            /\ auditLog' =
                IF ~written THEN auditLog
                ELSE Append(auditLog,
                        [totalRecords |-> Len(results),
                         succeeded |-> CountStatus(results, "success"),
                         failed |-> CountStatus(results, "error"),
                         skipped |-> CountStatus(results, "skipped"),
                         records |-> results])
    /\ sPc' = "done"
    /\ UNCHANGED <<index, sBatch, results, sFaults, embedCalls, ioLog, putCalls>>

(***************************************************************************)
(* Inputs of the stream ingestor                                           *)
(***************************************************************************)
VectorKeys == {"k1", "k2"}

GoodArticle(k) ==
    [url_hash |-> k, url |-> <<"u">>, title |-> <<"a">>,
     content |-> <<"<", "b", ">", "c">>, category |-> "finance",
     pubDate |-> <<"2024-01-01", "T", "09:00:00Z">>]
BlankArticle(k) ==
    [url_hash |-> k, url |-> <<"u">>, title |-> <<" ">>,
     content |-> <<"<", "b", ">">>, category |-> "",
     pubDate |-> <<"2024-01-02">>]
NoUrlArticle(k) ==
    [url_hash |-> k, url |-> <<>>, title |-> <<"a">>, content |-> <<"c">>, category |-> "finance",
     pubDate |-> <<"2024-01-01", "T", "09:00:00Z">>]

StreamRecord(eventName, hasNewImage, article) ==
    [eventName |-> eventName, hasNewImage |-> hasNewImage,
     url_hash |-> article.url_hash, article |-> article]

StreamRecords ==
    {StreamRecord("INSERT", TRUE, a) :
        a \in {GoodArticle(k) : k \in VectorKeys} \cup {BlankArticle("k1"), NoUrlArticle("k1")}}
    \cup {StreamRecord("MODIFY", TRUE, GoodArticle("k1")),
          StreamRecord("MODIFY", FALSE, GoodArticle("k1")),
          StreamRecord("REMOVE", TRUE, GoodArticle("k1")),
          StreamRecord("REMOVE", FALSE, GoodArticle("k2")),
          StreamRecord("", TRUE, GoodArticle("k2"))}

InitStream ==
    /\ sBatch \in SeqsUpTo(StreamRecords, MaxBatch)
    /\ sPc = IF sBatch = <<>> THEN "log" ELSE "record"
    /\ results = <<>>
    /\ sFaults = <<>>
    /\ embedCalls = {}
    /\ ioLog = <<>>
    /\ putCalls = {}
    /\ logWrite = "not_called"
    /\ auditLog = <<>>

IdleStream ==
    /\ sBatch = <<>>
    /\ sPc = "done"
    /\ results = <<>>
    /\ sFaults = <<>>
    /\ embedCalls = {}
    /\ ioLog = <<>>
    /\ putCalls = {}
    /\ logWrite = "not_called"
    /\ auditLog = <<>>

NextStream ==
    \/ StreamProcessRecord /\ UNCHANGED <<hashVars, ingestVars, writerVars, bfVars, agVars, cacheVars, listingVars>>
    \/ LogIngestion /\ UNCHANGED <<hashVars, ingestVars, writerVars, bfVars, agVars, cacheVars, listingVars>>

BATCH_SIZE == 2     \* 500 in the source, scaled down with the batches

Min(a, b) == IF a < b THEN a ELSE b

\* a chunk that leaves out its last vector: inputs.slice(i, i + BATCH_SIZE - 1)
ChunkOfShort(inputs, i) == SubSeq(inputs, i + 1, Min(i + BATCH_SIZE - 1, Len(inputs)))

\* inputs.slice(i, i + BATCH_SIZE), i counted from 0
ChunkOf(inputs, i) == SubSeq(inputs, i + 1, Min(i + BATCH_SIZE, Len(inputs)))

\* putVectorsBatch from offset i on; the request of chunk number failAt throws
\* (0: none does).  Gives the index and whether the call threw.
RECURSIVE putVectorsBatchFrom(_, _, _, _)
putVectorsBatchFrom(idxmap, inputs, i, failAt) ==
    IF i >= Len(inputs) THEN [index |-> idxmap, threw |-> FALSE]
    ELSE IF failAt = (i \div BATCH_SIZE) + 1 THEN [index |-> idxmap, threw |-> TRUE]
    ELSE putVectorsBatchFrom(PutVectors(idxmap, ChunkOf(inputs, i)), inputs,
                             i + BATCH_SIZE, failAt)

putVectorsBatch(idxmap, inputs, failAt) == putVectorsBatchFrom(idxmap, inputs, 0, failAt)

\* number of PutVectors requests putVectorsBatch sends for the inputs
ChunkCount(inputs) == (Len(inputs) + BATCH_SIZE - 1) \div BATCH_SIZE

\* the last input of each key, as a map from the keys
LastByKey(prev, inputs) ==
    [k \in DOMAIN prev \cup {inputs[i].key : i \in 1..Len(inputs)} |->
        IF \E i \in 1..Len(inputs) : inputs[i].key = k
        THEN inputs[CHOOSE j \in 1..Len(inputs) :
                        /\ inputs[j].key = k
                        /\ \A m \in (j + 1)..Len(inputs) : inputs[m].key # k]
        ELSE prev[k]]

\* a caller's putVector call
CallPutVector(input) ==
    \E ok \in BOOLEAN :
        IF ok THEN /\ index' = putVector(index, input)
                   /\ lastPut' = LastByKey(lastPut, <<input>>)
                   /\ UNCHANGED putFailed
        ELSE /\ putFailed' = TRUE
             /\ UNCHANGED <<index, lastPut>>

\* a caller's putVectorsBatch call
CallPutVectorsBatch(inputs) ==
    \E failAt \in 0..ChunkCount(inputs) :
        LET r == putVectorsBatch(index, inputs, failAt)
        IN  /\ index' = r.index
            /\ lastPut' = IF r.threw THEN lastPut ELSE LastByKey(lastPut, inputs)
            /\ putFailed' = (putFailed \/ r.threw)

(***************************************************************************)
(* Inputs of the vector index writer                                       *)
(***************************************************************************)
MaxVectors == 3

WriterKeys == {"k1", "k2", "k3"}
VectorInputs ==
    {[key |-> k, embedding |-> v[1], metadata |-> v[2]] :
        k \in WriterKeys, v \in {<<"e1", "m1">>, <<"e2", "m2">>}}

\* the inputs of one call name each key once
DistinctKeys(inputs) ==
    \A i, j \in 1..Len(inputs) : inputs[i].key = inputs[j].key => i = j

InputBatches == {b \in SeqsUpTo(VectorInputs, MaxVectors) : DistinctKeys(b)}

IdleWriter ==
    /\ lastPut = <<>>
    /\ putFailed = FALSE

NextWriter ==
    \/ \E input \in VectorInputs :
        CallPutVector(input) /\ UNCHANGED <<hashVars, ingestVars, streamVars, bfVars, agVars, cacheVars, listingVars>>
    \/ \E inputs \in InputBatches :
        CallPutVectorsBatch(inputs) /\ UNCHANGED <<hashVars, ingestVars, streamVars, bfVars, agVars, cacheVars, listingVars>>

(***************************************************************************)
(* Backfill reconciler (vector backfill script)                            *)
(***************************************************************************)
VECTORS_BATCH_SIZE == 2     \* 100 in the source, scaled down with the scans
maxRetries == 3

\* the items of the page the loop is in
PageItems == bfPages[bfPage]

\* a run that ends after the scan loop without the final flush
AfterScanLoopNoFlush(buffer) == "done"

\* pendingVectors.length > 0 && !options.dryRun, after the scan loop
AfterScanLoop(buffer) == IF Len(buffer) > 0 /\ ~bfDryRun THEN "finalflush" ELSE "done"

\* where the run goes after the item at bfItem: the next item, the next page
\* (while lastEvaluatedKey), or past the scan loop
PositionAfterItem(buffer) ==
    IF bfItem < Len(PageItems) THEN [pc |-> "item", item |-> bfItem + 1]
    ELSE IF bfPage < Len(bfPages) THEN [pc |-> "scan", item |-> bfItem]
    ELSE [pc |-> AfterScanLoop(buffer), item |-> bfItem]

\* flushVectorsBatch is entered: the first attempt is next
EnterFlush(kind, st, buffer) ==
    /\ bfPc' = kind
    /\ attempt' = 1
    /\ flushLog' = <<>>
    /\ flushStart' = [totalSuccess |-> st.totalSuccess, totalError |-> st.totalError,
                      errors |-> st.errors, vectors |-> buffer]
    /\ flushCalls' = Append(flushCalls, buffer)

\* the run moves on from the item at bfItem with the given stats and buffer
MoveOn(st, buffer) ==
    LET next == PositionAfterItem(buffer)
    IN  IF next.pc = "finalflush"
        THEN EnterFlush("finalflush", st, buffer) /\ UNCHANGED bfItem
        ELSE /\ bfPc' = next.pc
             /\ bfItem' = next.item
             /\ UNCHANGED <<attempt, flushLog, flushStart, flushCalls>>

\* one ScanCommand of the do-while loop
BfScan ==
    /\ bfPc = "scan"
    /\ bfPage' = bfPage + 1
    /\ LET items == bfPages[bfPage + 1]
           st == [stats EXCEPT !.totalScanned = @ + Len(items)]
       IN  /\ stats' = st
           /\ IF Len(items) > 0 THEN
                    /\ bfPc' = "item"
                    /\ bfItem' = 1
                    /\ UNCHANGED <<attempt, flushLog, flushStart, flushCalls>>
              ELSE IF bfPage + 1 < Len(bfPages) THEN
                    /\ bfPc' = "scan"
                    /\ UNCHANGED <<bfItem, attempt, flushLog, flushStart, flushCalls>>
              ELSE IF AfterScanLoop(pendingVectors) = "finalflush" THEN
                    EnterFlush("finalflush", st, pendingVectors) /\ UNCHANGED bfItem
              ELSE
                    /\ bfPc' = "done"
                    /\ UNCHANGED <<bfItem, attempt, flushLog, flushStart, flushCalls>>
    /\ UNCHANGED <<index, bfPages, bfDryRun, pendingVectors, firstRun, today>>

DELAY_BETWEEN_EMBEDDINGS_MS == 50
RATE_LIMIT_WAIT_MS == 60000

\* the catch block's wait: 60 seconds when the error message names a 429
RateLimitWait(urlHash, fault) ==
    IF fault = "rate" THEN <<Sleep(urlHash, RATE_LIMIT_WAIT_MS)>> ELSE <<>>

\* the body of the for loop for one item, up to the flush test behind the
\* try-catch
BfProcessItem ==
    /\ bfPc = "item"
    /\ LET item == PageItems[bfItem]
           processed == processArticleForVectors(item)
       IN  \E fault \in {"none", "embed", "rate"} :
            IF IsEmptyText(processed.embeddingText) THEN
                /\ fault = "none"
                /\ stats' = [stats EXCEPT !.totalSkipped = @ + 1]
                /\ MoveOn(stats', pendingVectors)
                /\ UNCHANGED <<pendingVectors, ioLog>>
            ELSE IF bfDryRun THEN
                /\ fault = "none"
                /\ stats' = [stats EXCEPT !.totalSuccess = @ + 1]
                /\ MoveOn(stats', pendingVectors)
                /\ UNCHANGED <<pendingVectors, ioLog>>
            ELSE IF fault # "none" THEN
                /\ stats' = [stats EXCEPT
                        !.totalError = @ + 1,
                        !.errors = Append(@, [urlHash |-> item.url_hash, error |-> fault])]
                /\ ioLog' = ioLog \o <<EmbeddingCall(item.url_hash, TRUE)>>
                                \o RateLimitWait(item.url_hash, fault)
                /\ MoveOn(stats', pendingVectors)
                /\ UNCHANGED pendingVectors
            ELSE
                /\ ioLog' = ioLog \o <<EmbeddingCall(item.url_hash, FALSE),
                                              Sleep(item.url_hash, DELAY_BETWEEN_EMBEDDINGS_MS)>>
                /\ pendingVectors' = Append(pendingVectors,
                        [key |-> processed.vectorKey,
                         embedding |-> EmbeddingOf(processed.embeddingText),
                         metadata |-> processed.metadata])
                /\ stats' = [stats EXCEPT !.totalSuccess = @ + 1]
                /\ IF Len(pendingVectors') >= VECTORS_BATCH_SIZE
                   THEN EnterFlush("flush", stats', pendingVectors') /\ UNCHANGED bfItem
                   ELSE MoveOn(stats', pendingVectors')
    /\ UNCHANGED <<index, bfPages, bfDryRun, bfPage, firstRun, today>>

\* a retry test that gives up one attempt early
MayRetryOneLess(n) == n < maxRetries - 1

\* flushVectorsBatch: if (attempt < maxRetries)
MayRetry(n) == n < maxRetries

\* a failed batch that is counted as failed but keeps its tentative successes
MarkBatchFailedKeepSuccess(st, vectors) ==
    [st EXCEPT
        !.totalError = @ + Len(vectors),
        !.errors = @ \o [i \in 1..Len(vectors) |->
                            [urlHash |-> vectors[i].key, error |-> "batch write failed"]]]

\* flushVectorsBatch's else branch: the batch is counted as failed
MarkBatchFailed(st, vectors) ==
    [st EXCEPT
        !.totalError = @ + Len(vectors),
        !.totalSuccess = @ - Len(vectors),
        !.errors = @ \o [i \in 1..Len(vectors) |->
                            [urlHash |-> vectors[i].key, error |-> "batch write failed"]]]

\* flushVectorsBatch has returned: the caller empties the buffer and goes on
FlushReturns ==
    /\ pendingVectors' = <<>>
    /\ attempt' = 0
    /\ IF bfPc = "finalflush"
       THEN bfPc' = "done" /\ UNCHANGED bfItem
       ELSE LET next == PositionAfterItem(<<>>)
            IN  bfPc' = next.pc /\ bfItem' = next.item

DELAY_BETWEEN_BATCHES_MS == 2000

\* a backoff that does not grow with the attempt
BackoffMsFlat(n) == 2000

\* flushVectorsBatch: Math.min(2000 * Math.pow(2, attempt - 1), 30000)
BackoffMs(n) == Min(2000 * 2 ^ (n - 1), 30000)

\* one turn of flushVectorsBatch's for loop: a putVectorsBatch call and what
\* follows it
BfFlushAttempt ==
    /\ bfPc \in {"flush", "finalflush"}
    /\ \E failAt \in 0..ChunkCount(pendingVectors) :
        LET r == putVectorsBatch(index, pendingVectors, failAt)
        IN  /\ index' = r.index
            /\ IF ~r.threw THEN
                    /\ flushLog' = Append(flushLog, "ok")
                    /\ ioLog' = Append(ioLog, Sleep("batch", DELAY_BETWEEN_BATCHES_MS))
                    /\ FlushReturns
                    /\ UNCHANGED stats
               ELSE
                    /\ flushLog' = Append(flushLog, "fail")
                    /\ ioLog' = IF MayRetry(attempt)
                                THEN Append(ioLog, Sleep("batch", BackoffMs(attempt)))
                                ELSE ioLog
                    /\ stats' = IF MayRetry(attempt) THEN stats
                                ELSE MarkBatchFailed(stats, pendingVectors)
                    /\ IF attempt + 1 <= maxRetries
                       THEN /\ attempt' = attempt + 1
                            /\ UNCHANGED <<bfPc, bfItem, pendingVectors>>
                       ELSE FlushReturns
    /\ UNCHANGED <<bfPages, bfDryRun, bfPage, flushStart, flushCalls, firstRun, today>>

(***************************************************************************)
(* Inputs of the backfill                                                  *)
(***************************************************************************)
MaxScan == 3

ScanItems ==
    {GoodArticle(k) : k \in WriterKeys} \cup {BlankArticle(k) : k \in WriterKeys}

\* the primary store holds one record per url_hash
DistinctHashes(items) ==
    \A i, j \in 1..Len(items) : items[i].url_hash = items[j].url_hash => i = j

ScanResults == {items \in SeqsUpTo(ScanItems, MaxScan) : DistinctHashes(items)}

InitBackfill ==
    /\ \E items \in ScanResults, cut \in 0..MaxScan :
        /\ cut <= Len(items)
        /\ bfPages = <<SubSeq(items, 1, cut), SubSeq(items, cut + 1, Len(items))>>
    /\ bfDryRun \in BOOLEAN
    /\ bfPc = "scan"
    /\ bfPage = 0
    /\ bfItem = 0
    /\ stats = [totalScanned |-> 0, totalSuccess |-> 0, totalError |-> 0,
                totalSkipped |-> 0, errors |-> <<>>]
    /\ pendingVectors = <<>>
    /\ attempt = 0
    /\ flushLog = <<>>
    /\ flushStart = NoValue
    /\ flushCalls = <<>>
    /\ firstRun = NoValue
    /\ today = 1

IdleBackfill ==
    /\ bfPages = <<>>
    /\ bfDryRun = FALSE
    /\ bfPc = "done"
    /\ bfPage = 0
    /\ bfItem = 0
    /\ stats = [totalScanned |-> 0, totalSuccess |-> 0, totalError |-> 0,
                totalSkipped |-> 0, errors |-> <<>>]
    /\ pendingVectors = <<>>
    /\ attempt = 0
    /\ flushLog = <<>>
    /\ flushStart = NoValue
    /\ flushCalls = <<>>
    /\ firstRun = NoValue
    /\ today = 1

\* the script is started again on the same primary store with the same options
BfRunAgain ==
    /\ bfPc = "done"
    /\ firstRun = NoValue
    /\ firstRun' = [index |-> index, stats |-> stats]
    /\ bfPc' = "scan"
    /\ bfPage' = 0
    /\ bfItem' = 0
    /\ stats' = [totalScanned |-> 0, totalSuccess |-> 0, totalError |-> 0,
                 totalSkipped |-> 0, errors |-> <<>>]
    /\ pendingVectors' = <<>>
    /\ attempt' = 0
    /\ flushLog' = <<>>
    /\ flushStart' = NoValue
    /\ flushCalls' = <<>>
    /\ today' \in {d \in {today, today + 1} : d <= Len(Days)}
    /\ ioLog' = <<>>
    /\ UNCHANGED <<index, bfPages, bfDryRun>>

NextBackfill ==
    \/ BfScan /\ UNCHANGED <<hashVars, ingestVars, streamVars, writerVars, agVars, cacheVars, listingVars>>
    \/ BfProcessItem /\ UNCHANGED <<hashVars, ingestVars, sBatch, sPc, results, sFaults, embedCalls,
                                    putCalls, logWrite, auditLog, writerVars, agVars,
                                    cacheVars, listingVars>>
    \/ BfFlushAttempt /\ UNCHANGED <<hashVars, ingestVars, sBatch, sPc, results, sFaults, embedCalls,
                                     putCalls, logWrite, auditLog, writerVars, agVars,
                                     cacheVars, listingVars>>

(***************************************************************************)
(* Hydrating search (s3-vectors-search.ts)                                 *)
(*                                                                         *)
(* A vector of a QueryVectors response is a record [key, distance,         *)
(* metadata]; distance is <<d>>, or <<>> when the response carries none,   *)
(* and a metadata field the response lacks is "" (<<>> for the title).     *)
(***************************************************************************)
\* x || y on strings
OrElse(x, y) == IF x = "" THEN y ELSE x

\* queryVectors: one element of (response.vectors || []).map(...)
VectorSearchResult(v) ==
    [key      |-> v.key,
     distance |-> IF v.distance = <<>> THEN 1 ELSE v.distance[1],
     metadata |-> [article_id |-> OrElse(v.metadata.article_id, v.key),
                   title      |-> v.metadata.title,
                   url        |-> v.metadata.url,
                   category   |-> v.metadata.category,
                   pub_date   |-> v.metadata.pub_date]]

\* queryVectors, given the vectors of the response
queryVectors(vectors) == [i \in 1..Len(vectors) |-> VectorSearchResult(vectors[i])]

\* batchGetArticles: the map from url_hash to the item of every requested
\* key the table holds (the chunks of 100 keys are merged into one map)
batchGetArticles(urlHashes, table) ==
    [h \in {urlHashes[i] : i \in 1..Len(urlHashes)} \cap DOMAIN table |-> table[h]]

PageContentMax == 4000

\* String.prototype.slice(0, n)
SliceTo(text, n) == SubSeq(text, 1, IF Len(text) < n THEN Len(text) ELSE n)

\* searchArticles: the Document of a hit whose article was found
HydratedDocument(result, article) ==
    LET content == stripHtml(article.content)
        title == IF article.title # <<>> THEN article.title ELSE result.metadata.title
        base == [title      |-> title,
                 url        |-> OrElse(article.url, result.metadata.url),
                 category   |-> result.metadata.category,
                 pub_date   |-> result.metadata.pub_date,
                 distance   |-> result.distance,
                 article_id |-> result.metadata.article_id]
    IN  [pageContent |-> SliceTo(title \o <<"\n", "\n">> \o content, PageContentMax),
         metadata    |-> IF article.thumbnail # ""
                         THEN base @@ [img_src |-> article.thumbnail]
                         ELSE base]

\* searchArticles: the Document of a hit with no article in the table
MetadataOnlyDocument(result) ==
    [pageContent |-> result.metadata.title,
     metadata    |-> [title      |-> result.metadata.title,
                      url        |-> result.metadata.url,
                      category   |-> result.metadata.category,
                      pub_date   |-> result.metadata.pub_date,
                      distance   |-> result.distance,
                      article_id |-> result.metadata.article_id]]

\* a search that drops the hits whose article is not in the table
RECURSIVE DocumentsOfFound(_, _)
DocumentsOfFound(vectorResults, articlesMap) ==
    IF vectorResults = <<>> THEN <<>>
    ELSE LET result == Head(vectorResults)
         IN  (IF result.metadata.article_id \in DOMAIN articlesMap
              THEN <<HydratedDocument(result, articlesMap[result.metadata.article_id])>>
              ELSE <<>>) \o DocumentsOfFound(Tail(vectorResults), articlesMap)

\* searchArticles: step 4, the loop over vectorResults
DocumentsOf(vectorResults, articlesMap) ==
    [i \in 1..Len(vectorResults) |->
        LET result == vectorResults[i]
        IN  IF result.metadata.article_id \in DOMAIN articlesMap
            THEN HydratedDocument(result, articlesMap[result.metadata.article_id])
            ELSE MetadataOnlyDocument(result)]

\* searchArticles, given the vectors the index returns for the query and the
\* table of the primary store
searchArticles(vectors, table) ==
    LET vectorResults == queryVectors(vectors)
    IN  IF Len(vectorResults) = 0 THEN <<>>
        ELSE DocumentsOf(vectorResults,
                         batchGetArticles([i \in 1..Len(vectorResults) |->
                                              vectorResults[i].metadata.article_id], table))

(***************************************************************************)
(* Search agent (s3VectorsSearchAgent.ts)                                  *)
(*                                                                         *)
(* Similarities and thresholds are counted in tenths: 3 is 0.3.            *)
(***************************************************************************)
\* getSearchParams; 5, 10 and 15 in the source, scaled down with the hit lists
getSearchParams(optimizationMode) ==
    CASE optimizationMode = "speed" -> [topK |-> 1, maxDocs |-> 1]
      [] optimizationMode = "balanced" -> [topK |-> 2, maxDocs |-> 2]
      [] optimizationMode = "quality" -> [topK |-> 3, maxDocs |-> 3]
      [] OTHER -> [topK |-> 2, maxDocs |-> 2]

\* an id that ignores the article id and takes the URL
DocIdByUrl(doc) == doc.metadata.url

\* createMultiQuerySearchChain: doc.metadata.article_id || doc.metadata.url
DocId(doc) == OrElse(doc.metadata.article_id, doc.metadata.url)

\* a merge that keeps every document
RECURSIVE MergeIntoKeepAll(_, _, _)
MergeIntoKeepAll(docs, seen, mergedDocs) ==
    [seen |-> seen \cup {DocId(docs[i]) : i \in 1..Len(docs)}, mergedDocs |-> mergedDocs \o docs]

\* the for loops over searchResults and docs: seen and mergedDocs after the
\* documents of docs have been visited
RECURSIVE MergeInto(_, _, _)
MergeInto(docs, seen, mergedDocs) ==
    IF docs = <<>> THEN [seen |-> seen, mergedDocs |-> mergedDocs]
    ELSE IF DocId(Head(docs)) \in seen
         THEN MergeInto(Tail(docs), seen, mergedDocs)
         ELSE MergeInto(Tail(docs), seen \cup {DocId(Head(docs))},
                        Append(mergedDocs, Head(docs)))

RECURSIVE MergeLists(_, _, _)
MergeLists(searchResults, seen, mergedDocs) ==
    IF searchResults = <<>> THEN mergedDocs
    ELSE LET m == MergeInto(Head(searchResults), seen, mergedDocs)
         IN  MergeLists(Tail(searchResults), m.seen, m.mergedDocs)

\* createMultiQuerySearchChain: merge and deduplication of the search results
MergeSearchResults(searchResults) == MergeLists(searchResults, {}, <<>>)

\* createAnsweringChain: sim.similarity > threshold
PassesThreshold(similarity, threshold) == similarity > threshold

\* x is put behind every element of sorted that is not smaller: a step of
\* the stable sort by descending similarity
RECURSIVE InsertDescending(_, _)
InsertDescending(x, sorted) ==
    IF sorted = <<>> THEN <<x>>
    ELSE IF Head(sorted).similarity >= x.similarity
         THEN <<Head(sorted)>> \o InsertDescending(x, Tail(sorted))
         ELSE <<x>> \o sorted

\* a sort by ascending similarity
RECURSIVE SortAscending(_)
SortAscending(sims) ==
    IF sims = <<>> THEN <<>>
    ELSE LET least == CHOOSE i \in 1..Len(sims) :
                        /\ \A j \in 1..Len(sims) : sims[i].similarity <= sims[j].similarity
                        /\ \A j \in 1..(i - 1) : sims[j].similarity > sims[i].similarity
         IN  <<sims[least]>> \o
             SortAscending(SubSeq(sims, 1, least - 1) \o SubSeq(sims, least + 1, Len(sims)))

\* Array.prototype.sort((a, b) => b.similarity - a.similarity)
RECURSIVE SortDescending(_)
SortDescending(sims) ==
    IF sims = <<>> THEN <<>>
    ELSE InsertDescending(sims[Len(sims)], SortDescending(SubSeq(sims, 1, Len(sims) - 1)))

\* createAnsweringChain: filter, sort, slice and map of the similarities;
\* similarities[i] is the similarity of docsWithContent[i]
Rerank(docsWithContent, similarities, threshold, maxDocs) ==
    LET similarity == [i \in 1..Len(similarities) |->
                            [index |-> i, similarity |-> similarities[i]]]
        kept == SelectSeq(similarity, LAMBDA sim : PassesThreshold(sim.similarity, threshold))
        sorted == SliceTo(SortDescending(kept), maxDocs)
    IN  [i \in 1..Len(sorted) |-> docsWithContent[sorted[i].index]]

\* docs.filter((doc) => doc.pageContent && doc.pageContent.length > 0)
DocsWithContent(docs) == SelectSeq(docs, LAMBDA doc : doc.pageContent # <<>>)

\* Math.max(a, b)
Max(a, b) == IF a > b THEN a ELSE b

\* createAnsweringChain: the threshold of the mode
ThresholdOf(optimizationMode, rerankThreshold) ==
    IF optimizationMode = "quality" THEN Max(rerankThreshold, 2) ELSE rerankThreshold

(***************************************************************************)
(* Inputs of the reranking pipeline                                        *)
(***************************************************************************)
MaxRerankDocs == 3
MaxSimilarity == 3

RerankCases ==
    {c \in [kind : {"rerank"},
            sims : SeqsUpTo(0..MaxSimilarity, MaxRerankDocs),
            t1 : 0..MaxSimilarity, t2 : 0..MaxSimilarity,
            maxDocs : 1..MaxRerankDocs] : c.t1 <= c.t2}

InitRerank ==
    /\ hCase \in RerankCases
    /\ hOut = NoValue
    /\ hDone = FALSE

\* the reranking pipeline applied to the same documents and similarities
\* under two thresholds; a document stands for its position in docsWithContent
RerankUnderTwoThresholds ==
    /\ ~hDone
    /\ hCase.kind = "rerank"
    /\ LET docsWithContent == [i \in 1..Len(hCase.sims) |-> i]
       IN  hOut' = [low  |-> Rerank(docsWithContent, hCase.sims, hCase.t1, hCase.maxDocs),
                    high |-> Rerank(docsWithContent, hCase.sims, hCase.t2, hCase.maxDocs)]
    /\ hDone' = TRUE
    /\ UNCHANGED hCase

NextRerank ==
    RerankUnderTwoThresholds
        /\ UNCHANGED <<ingestVars, index, streamVars, writerVars, bfVars, agVars, cacheVars, listingVars>>

(***************************************************************************)
(* Search agent: one run of searchAndAnswer                                *)
(***************************************************************************)
Sentinel == "not_needed"

\* the queries the retriever chain searches for: the parsed question in the
\* single-query modes, [q1, q2, q3].filter((q) => q && q.length > 0) in
\* quality mode
QueriesOf(in) ==
    IF in.mode = "quality"
    THEN SelectSeq(in.questions, LAMBDA q : q # "")
    ELSE <<in.questions[1]>>

\* the retrieval-stage calls of executeSearch that are issued when the given
\* one fails (all of them when none does); the primary store is read only
\* for a non-empty list of hits
SearchCalls(fault, vectors) ==
    CASE fault = "embed" -> {"generateQueryEmbedding"}
      [] fault = "query" -> {"generateQueryEmbedding", "queryVectors"}
      [] OTHER -> {"generateQueryEmbedding", "queryVectors"}
                    \cup (IF vectors = <<>> THEN {} ELSE {"batchGetArticles"})

\* a retriever chain that lets the failure of a sub-query through
AbsorbNothing(fault, documents) == [threw |-> fault # "none", docs |-> documents]

\* .catch(() => []) of the multi-query chain, try/catch of the single-query
\* chain: a failed search contributes no document
AbsorbFailure(fault, documents) ==
    [threw |-> FALSE, docs |-> IF fault # "none" THEN <<>> ELSE documents]

\* a sentinel test against another spelling
IsNotNeededSpaced(question) == question = "not needed"

\* question === 'not_needed', q1 === 'not_needed'
IsNotNeeded(question) == question = Sentinel

\* the question of the rewriter is parsed: the sentinel ends the retrieval
\* with no document, anything else starts the searches
AgRewrite ==
    /\ agPc = "rewrite"
    /\ \E llm \in {"ok", "fail"} :
        IF llm = "fail" THEN
            /\ agPc' = "llm_failed"
            /\ UNCHANGED agDocs
        ELSE IF IsNotNeeded(agIn.questions[1]) \/ QueriesOf(agIn) = <<>> THEN
            /\ agPc' = "context"
            /\ agDocs' = <<>>
        ELSE
            /\ agPc' = "search"
            /\ UNCHANGED agDocs
    /\ UNCHANGED <<store, agIn, agFailed, agCalls, agSearch, agSources, agEvents>>

\* executeSearch for the next query, and after the last one the merge of the
\* search results
AgSubSearch ==
    /\ agPc = "search"
    /\ LET queries == QueriesOf(agIn)
           query == queries[Len(agSearch) + 1]
           vectors == agIn.hits[query]
       IN  \E fault \in {"none", "embed", "query", "hydrate"} :
            /\ fault = "hydrate" => vectors # <<>>
            /\ LET r == AbsorbFailure(fault, searchArticles(vectors, store))
                   searchResults == Append(agSearch, r.docs)
               IN  /\ agCalls' = agCalls \cup SearchCalls(fault, vectors)
                   /\ agFailed' = Append(agFailed, fault # "none")
                   /\ agSearch' = searchResults
                   /\ IF r.threw THEN
                        agPc' = "retrieval_failed" /\ UNCHANGED agDocs
                      ELSE IF Len(searchResults) < Len(queries) THEN
                        UNCHANGED <<agPc, agDocs>>
                      ELSE
                        /\ agPc' = "context"
                        /\ agDocs' = IF agIn.mode = "quality"
                                     THEN MergeSearchResults(searchResults)
                                     ELSE searchResults[1]
    /\ UNCHANGED <<store, agIn, agSources, agEvents>>

\* the rest of FinalSourceRetriever: cap or rerank the documents; its
\* on_chain_end event makes handleStream emit 'sources'
AgContext ==
    /\ agPc = "context"
    /\ LET maxDocs == getSearchParams(agIn.mode).maxDocs
           docsWithContent == DocsWithContent(agDocs)
           similarities == [i \in 1..Len(docsWithContent) |->
                                agIn.sim[docsWithContent[i].metadata.article_id]]
       IN  \E fault \in {"none", "embedDocuments", "embedQuery"} :
            IF agDocs = <<>> \/ agIn.mode = "speed" THEN
                /\ fault = "none"
                /\ agSources' = SliceTo(agDocs, maxDocs)
                /\ agEvents' = Append(agEvents, "sources")
                /\ agPc' = "respond"
                /\ UNCHANGED agCalls
            ELSE
                /\ agCalls' = agCalls \cup {"embedDocuments", "embedQuery"}
                /\ IF fault # "none" THEN
                        /\ agPc' = "retrieval_failed"
                        /\ UNCHANGED <<agSources, agEvents>>
                   ELSE
                        /\ agSources' = Rerank(docsWithContent, similarities,
                                               ThresholdOf(agIn.mode, agIn.rerankThreshold),
                                               maxDocs)
                        /\ agEvents' = Append(agEvents, "sources")
                        /\ agPc' = "respond"
    /\ UNCHANGED <<store, agIn, agFailed, agSearch, agDocs>>

MaxChunks == 1

\* FinalResponseGenerator streams a chunk, ends, or fails; handleStream emits
\* 'response' for a chunk and 'end' for the end
AgRespond ==
    /\ agPc = "respond"
    /\ \E llm \in {"chunk", "end", "fail"} :
        CASE llm = "chunk" ->
                /\ Len(SelectSeq(agEvents, LAMBDA e : e = "response")) < MaxChunks
                /\ agEvents' = Append(agEvents, "response")
                /\ UNCHANGED agPc
          [] llm = "end" ->
                /\ agEvents' = Append(agEvents, "end")
                /\ agPc' = "ended"
          [] OTHER ->
                /\ agPc' = "llm_failed"
                /\ UNCHANGED agEvents
    /\ UNCHANGED <<store, agIn, agFailed, agCalls, agSearch, agDocs, agSources>>

(***************************************************************************)
(* Inputs of the search agent                                              *)
(***************************************************************************)
MaxHits == 2

ArticleIds == {"a", "b", "c"}

\* the vector the index returns for key k on the n-th query; the vector of
\* "c" carries neither distance nor article_id
QueryOutputVector(k, n) ==
    [key      |-> k,
     distance |-> IF k = "c" THEN <<>> ELSE <<n>>,
     metadata |-> [article_id |-> IF k = "c" THEN "" ELSE k,
                   title      |-> <<"t", k>>,
                   url        |-> k,
                   category   |-> "finance",
                   pub_date   |-> "2024-01-01"]]

KeyLists ==
    {ks \in SeqsUpTo(ArticleIds, MaxHits) : \A i, j \in 1..Len(ks) : ks[i] = ks[j] => i = j}

VectorsFor(ks, n) == [i \in 1..Len(ks) |-> QueryOutputVector(ks[i], n)]

\* the item the primary store holds under url_hash k
StoredArticle(k) ==
    [url_hash |-> k, title |-> <<"T", k>>, url |-> k,
     content |-> <<"<", "p", ">", k>>, thumbnail |-> IF k = "a" THEN "img" ELSE ""]

AgentStores == {[k \in ks |-> StoredArticle(k)] : ks \in {ArticleIds, ArticleIds \ {"b"}}}

AgentQuestions(mode) ==
    IF mode = "quality"
    THEN {<<"q1", "q2", "q3">>, <<"q1", "", "q3">>, <<Sentinel, "q2", "q3">>}
    ELSE {<<"q1">>, <<Sentinel>>}

AgentInputs ==
    {in \in [mode : {"speed", "balanced", "quality"},
             questions : UNION {AgentQuestions(m) : m \in {"speed", "quality"}},
             hits : {[q \in {"q1", "q2", "q3", Sentinel} |->
                        IF q = Sentinel THEN VectorsFor(<<"a">>, 1)
                        ELSE VectorsFor(ks[q], IF q = "q1" THEN 1 ELSE IF q = "q2" THEN 2 ELSE 3)] :
                     ks \in [{"q1", "q2", "q3"} -> KeyLists]},
             sim : {[k \in ArticleIds |-> IF k = "a" THEN 3 ELSE IF k = "b" THEN 4 ELSE 5]},
             rerankThreshold : {3}] :
        /\ in.questions \in AgentQuestions(in.mode)
        /\ \A q \in {"q1", "q2", "q3"} :
            /\ Len(in.hits[q]) <= getSearchParams(in.mode).topK
            /\ (in.mode # "quality" /\ q # "q1") => in.hits[q] = <<>>}

InitAgent ==
    /\ agIn \in AgentInputs
    /\ store \in AgentStores
    /\ agPc = "rewrite"
    /\ agFailed = <<>>
    /\ agCalls = {}
    /\ agSearch = <<>>
    /\ agDocs = <<>>
    /\ agSources = <<>>
    /\ agEvents = <<>>

IdleAgent ==
    /\ agIn = NoValue
    /\ agPc = "ended"
    /\ agFailed = <<>>
    /\ agCalls = {}
    /\ agSearch = <<>>
    /\ agDocs = <<>>
    /\ agSources = <<>>
    /\ agEvents = <<>>

\* the other variables of the article ingestor while the agent reads the store
IdleIngestors ==
    /\ batch = [p \in Procs |-> <<>>]
    /\ idx = [p \in Procs |-> 1]
    /\ pc = [p \in Procs |-> "done"]
    /\ pending = [p \in Procs |-> NoValue]
    /\ outcome = [p \in Procs |-> <<>>]
    /\ cats = [p \in Procs |-> <<>>]
    /\ inval = [p \in Procs |-> <<>>]

agentRest == <<hashVars, batch, idx, pc, pending, outcome, cats, inval, index,
               streamVars, writerVars, bfVars, cacheVars, listingVars>>

NextAgent ==
    \/ AgRewrite /\ UNCHANGED agentRest
    \/ AgSubSearch /\ UNCHANGED agentRest
    \/ AgContext /\ UNCHANGED agentRest
    \/ AgRespond /\ UNCHANGED agentRest

(***************************************************************************)
(* Cache service (lib/cache): remote tier (redis) and local tier           *)
(* (memoryCache).  Time is counted in units; one unit stands for 100 s.    *)
(* Keys are strings, that is sequences of characters.                      *)
(***************************************************************************)
MEMORY_CACHE_MAX_SIZE == 3  \* 100 in the source, scaled down with the keys
DEFAULT_TTL == 3            \* 300 s in the source: three units of time

Null == "null"

\* JSON.stringify and JSON.parse of a JSON value
JsonStringify(data) == <<"json", data>>
JsonParse(text) == text[2]

\* redis.get: the value stored under key unless it has expired
RedisGet(key) ==
    IF key \in DOMAIN redis /\ now < redis[key].expiresAt
    THEN JsonParse(redis[key].data) ELSE Null

\* redis.set(key, data, { ex: ttl })
RedisSet(key, data, ttl) ==
    [k \in DOMAIN redis \cup {key} |->
        IF k = key THEN [data |-> JsonStringify(data), expiresAt |-> now + ttl] ELSE redis[k]]

\* position of key in the map, 0 when it is not there
RECURSIVE MemoryIndex(_, _, _)
MemoryIndex(map, key, i) ==
    IF i > Len(map) THEN 0 ELSE IF map[i].key = key THEN i ELSE MemoryIndex(map, key, i + 1)

\* Map.prototype.delete
MemoryDelete(map, key) == SelectSeq(map, LAMBDA e : e.key # key)

\* Map.prototype.set: an existing key keeps its place in the insertion order
MemorySet(map, key, entry) ==
    LET i == MemoryIndex(map, key, 1)
        e == [key |-> key, data |-> entry.data, timestamp |-> entry.timestamp]
    IN  IF i = 0 THEN Append(map, e) ELSE [map EXCEPT ![i] = e]

\* cacheSet: if (memoryCache.size >= MEMORY_CACHE_MAX_SIZE) delete the oldest
EvictOldest(map) ==
    IF Len(map) >= MEMORY_CACHE_MAX_SIZE /\ map # <<>> /\ map[1].key # <<>>
    THEN MemoryDelete(map, map[1].key) ELSE map

\* cacheGet: now - memEntry.timestamp < DEFAULT_TTL * 1000
IsFresh(entry) == now - entry.timestamp < DEFAULT_TTL

\* options.ttl || DEFAULT_TTL; an absent ttl is 0
EffectiveTtl(ttl) == IF ttl = 0 THEN DEFAULT_TTL ELSE ttl

\* cacheSet(key, data, { ttl })
cacheSet(key, data, ttl) ==
    /\ \E remote \in {"ok", "fail"} :
        /\ ~redisUp => remote = "ok"
        /\ redis' = IF redisUp /\ remote = "ok"
                    THEN RedisSet(key, data, EffectiveTtl(ttl)) ELSE redis
        /\ lastCall' = [op |-> "set", key |-> key, value |-> data,
                        remote |-> IF redisUp THEN remote ELSE "null",
                        threw |-> "none", prev |-> <<>>]
    /\ memoryCache' = MemorySet(EvictOldest(memoryCache), key,
                                [data |-> JsonStringify(data), timestamp |-> now])
    /\ lastSet' = [k \in DOMAIN lastSet \cup {key} |->
                    IF k = key THEN [at |-> now, ttl |-> EffectiveTtl(ttl)]
                    ELSE lastSet[k]]
    /\ UNCHANGED <<redisUp, now>>

\* cacheGet(key); lastCall.value is what it returned
cacheGet(key) ==
    /\ \E remote \in {"ok", "fail"} :
        /\ ~redisUp => remote = "ok"
        /\ LET data == IF redisUp /\ remote = "ok" THEN RedisGet(key) ELSE Null
               i == MemoryIndex(memoryCache, key, 1)
               prev == IF lastCall.op = "set" THEN <<lastCall>> ELSE <<>>
               done(value) == [op |-> "get", key |-> key, value |-> value,
                               remote |-> IF redisUp THEN remote ELSE "null",
                               threw |-> "none", prev |-> prev]
           IN  IF data # Null THEN
                    /\ lastCall' = done(data)
                    /\ UNCHANGED memoryCache
               ELSE IF i = 0 THEN
                    /\ lastCall' = done(Null)
                    /\ UNCHANGED memoryCache
               ELSE IF IsFresh(memoryCache[i]) THEN
                    /\ lastCall' = done(JsonParse(memoryCache[i].data))
                    /\ UNCHANGED memoryCache
               ELSE
                    /\ lastCall' = done(Null)
                    /\ memoryCache' = MemoryDelete(memoryCache, key)
    /\ UNCHANGED <<redisUp, redis, now, lastSet>>

MaxTime == 3

\* time passes
CacheTick ==
    /\ now < MaxTime
    /\ now' = now + 1
    /\ lastCall' = [op |-> "tick", key |-> <<>>, value |-> Null, remote |-> "null",
                    threw |-> "none", prev |-> <<>>]
    /\ UNCHANGED <<redisUp, redis, memoryCache, lastSet>>

\* cacheInvalidate(key): redis.del in a try/catch, then memoryCache.delete
cacheInvalidate(key) ==
    /\ \E remote \in {"ok", "fail"} :
        /\ ~redisUp => remote = "ok"
        /\ redis' = IF redisUp /\ remote = "ok"
                    THEN [k \in DOMAIN redis \ {key} |-> redis[k]] ELSE redis
        /\ lastCall' = [op |-> "invalidate", key |-> key, value |-> Null,
                        remote |-> IF redisUp THEN remote ELSE "null",
                        threw |-> "none", prev |-> <<>>]
    /\ memoryCache' = MemoryDelete(memoryCache, key)
    /\ UNCHANGED <<redisUp, now, lastSet>>

\* the MATCH option of redis.scan: glob-style, * is any run of characters
\* and ? is any one character
RECURSIVE GlobMatch(_, _)
GlobMatch(pattern, key) ==
    IF pattern = <<>> THEN key = <<>>
    ELSE IF pattern[1] = "*" THEN
        \/ GlobMatch(Tail(pattern), key)
        \/ key # <<>> /\ GlobMatch(pattern, Tail(key))
    ELSE IF pattern[1] = "?" THEN key # <<>> /\ GlobMatch(Tail(pattern), Tail(key))
    ELSE key # <<>> /\ key[1] = pattern[1] /\ GlobMatch(Tail(pattern), Tail(key))

\* pattern.replace(/\*/g, '.*')
RECURSIVE ReplaceStars(_)
ReplaceStars(pattern) ==
    IF pattern = <<>> THEN <<>>
    ELSE (IF pattern[1] = "*" THEN <<".", "*">> ELSE <<pattern[1]>>)
         \o ReplaceStars(Tail(pattern))

\* the source text of the regex: '^' + pattern.replace(/\*/g, '.*') + '$'
RegexSource(pattern) == <<"^">> \o ReplaceStars(pattern) \o <<"$">>

Quantifiers == {"*", "?"}
SyntaxError == [valid |-> FALSE, terms |-> <<>>]

\* new RegExp over a body of characters, "." and quantifiers: the terms
\* [atom, quant] of the body, or SyntaxError when a quantifier has nothing
\* to repeat; a "?" after a quantifier makes it lazy
RECURSIVE RegexTerms(_)
RegexTerms(body) ==
    IF body = <<>> THEN [valid |-> TRUE, terms |-> <<>>]
    ELSE IF body[1] \in Quantifiers THEN SyntaxError
    ELSE LET quant == IF Len(body) >= 2 /\ body[2] \in Quantifiers THEN body[2] ELSE "1"
             used == IF quant = "1" THEN 1
                     ELSE IF Len(body) >= 3 /\ body[3] = "?" THEN 3 ELSE 2
             rest == RegexTerms(SubSeq(body, used + 1, Len(body)))
         IN  IF ~rest.valid THEN SyntaxError
             ELSE [valid |-> TRUE,
                   terms |-> <<[atom |-> body[1], quant |-> quant]>> \o rest.terms]

\* new RegExp(source) for a source of the form ^body$
NewRegExp(source) == RegexTerms(SubSeq(source, 2, Len(source) - 1))

AtomMatches(atom, char) == atom = "." \/ atom = char

\* whether the terms of an anchored regex match the whole of key
RECURSIVE TermsMatch(_, _)
TermsMatch(terms, key) ==
    IF terms = <<>> THEN key = <<>>
    ELSE LET t == terms[1]
             one == key # <<>> /\ AtomMatches(t.atom, key[1])
         IN  IF t.quant = "1" THEN one /\ TermsMatch(Tail(terms), Tail(key))
             ELSE IF t.quant = "?" THEN
                \/ TermsMatch(Tail(terms), key)
                \/ one /\ TermsMatch(Tail(terms), Tail(key))
             ELSE
                \/ TermsMatch(Tail(terms), key)
                \/ one /\ TermsMatch(terms, Tail(key))

\* regex.test(key)
RegexTest(regex, key) == TermsMatch(regex.terms, key)

SCAN_COUNT == 1  \* count: 100 in the source, scaled down with the keys

\* the keys of the remote tier in the order the scan visits them
RECURSIVE ScanOrder(_)
ScanOrder(keys) ==
    IF keys = {} THEN <<>>
    ELSE LET k == CHOOSE x \in keys : TRUE IN <<k>> \o ScanOrder(keys \ {k})

\* the do ... while (cursor !== 0) loop of cacheInvalidatePattern from the
\* given cursor on; calls counts the remote calls made so far and the call
\* numbered failAt throws
RECURSIVE ScanLoop(_, _, _, _, _, _)
ScanLoop(remote, order, pattern, cursor, calls, failAt) ==
    IF failAt = calls + 1 THEN [redis |-> remote, failed |-> TRUE]
    ELSE LET last == IF cursor + SCAN_COUNT < Len(order)
                     THEN cursor + SCAN_COUNT ELSE Len(order)
             keys == {order[i] : i \in {j \in (cursor + 1)..last : GlobMatch(pattern, order[j])}}
             nextCursor == IF last = Len(order) THEN 0 ELSE last
             deleted == [k \in DOMAIN remote \ keys |-> remote[k]]
         IN  IF keys # {} /\ failAt = calls + 2
             THEN [redis |-> remote, failed |-> TRUE]
             ELSE LET after == IF keys # {} THEN deleted ELSE remote
                      made == IF keys # {} THEN calls + 2 ELSE calls + 1
                  IN  IF nextCursor = 0 THEN [redis |-> after, failed |-> FALSE]
                      ELSE ScanLoop(after, order, pattern, nextCursor, made, failAt)

\* the for loop over memoryCache.keys()
DeleteMatching(map, regex) == SelectSeq(map, LAMBDA e : ~RegexTest(regex, e.key))

MaxRemoteCalls == 4

\* cacheInvalidatePattern(pattern); failAt = 0 when no remote call throws
cacheInvalidatePattern(pattern) ==
    /\ \E failAt \in 0..MaxRemoteCalls :
        /\ ~redisUp => failAt = 0
        /\ LET scanned == IF redisUp
                          THEN ScanLoop(redis, ScanOrder(DOMAIN redis), pattern, 0, 0, failAt)
                          ELSE [redis |-> redis, failed |-> FALSE]
               regex == NewRegExp(RegexSource(pattern))
           IN  /\ redis' = scanned.redis
               /\ memoryCache' = IF ~regex.valid THEN memoryCache
                                 ELSE DeleteMatching(memoryCache, regex)
               /\ lastCall' = [op |-> "invalidatePattern", key |-> pattern, value |-> Null,
                               remote |-> IF ~redisUp THEN "null"
                                          ELSE IF scanned.failed THEN "fail" ELSE "ok",
                               threw |-> IF ~regex.valid THEN "SyntaxError" ELSE "none",
                               prev |-> <<>>]
    /\ UNCHANGED <<redisUp, now, lastSet>>

CacheKeys == {<<"k", "1">>, <<"k", "2">>}
CacheValues == {"v1", "v2"}
CacheTtls == {0, 1}

InitCache ==
    /\ redisUp \in BOOLEAN
    /\ redis = <<>>
    /\ memoryCache = <<>>
    /\ now = 0
    /\ lastCall = [op |-> "none", key |-> <<>>, value |-> Null, remote |-> "null",
                   threw |-> "none", prev |-> <<>>]
    /\ lastSet = <<>>

IdleCache ==
    /\ redisUp = FALSE
    /\ redis = <<>>
    /\ memoryCache = <<>>
    /\ now = 0
    /\ lastCall = [op |-> "none", key |-> <<>>, value |-> Null, remote |-> "null",
                   threw |-> "none", prev |-> <<>>]
    /\ lastSet = <<>>

cacheRest == <<hashVars, ingestVars, index, streamVars, writerVars, bfVars, agVars, listingVars>>

NextCache ==
    \/ \E key \in CacheKeys, data \in CacheValues, ttl \in CacheTtls :
        cacheSet(key, data, ttl) /\ UNCHANGED cacheRest
    \/ \E key \in CacheKeys : cacheGet(key) /\ UNCHANGED cacheRest
    \/ CacheTick /\ UNCHANGED cacheRest

\* the keys and glob patterns of the invalidation runs
PatternKeys == {<<"a">>, <<"a", "b">>, <<"b">>}
PatternChars == {"a", "*", "?"}
MaxPatternLen == 2
Patterns == UNION {[1..n -> PatternChars] : n \in 1..MaxPatternLen}

\* the four operations of the cache service, at one instant
NextInvalidate ==
    \/ \E key \in PatternKeys : cacheSet(key, "v1", 0) /\ UNCHANGED cacheRest
    \/ \E key \in PatternKeys : cacheGet(key) /\ UNCHANGED cacheRest
    \/ \E key \in PatternKeys : cacheInvalidate(key) /\ UNCHANGED cacheRest
    \/ \E pattern \in Patterns : cacheInvalidatePattern(pattern) /\ UNCHANGED cacheRest

\* the keys of the eviction runs: one more than the local map holds
EvictKeys == PatternKeys \cup {<<"b", "a">>}

\* cacheSet calls of the web process as time passes
NextEvict ==
    \/ \E key \in EvictKeys : cacheSet(key, "v1", 0) /\ UNCHANGED cacheRest
    \/ CacheTick /\ UNCHANGED cacheRest

(***************************************************************************)
(* Listing reads of the web process (api/discover fetchArticles) against   *)
(* the article ingestor's cache invalidation.  A cache key is given by its *)
(* pieces, a listing by its JSON text.                                     *)
(***************************************************************************)
\* discoverListKey(topic, date) with the date left out: today's date
discoverListKey(topic) == <<"discover:", topic, ":", Days[today]>>

MaxListing == 2
\* the listing of a category that holds n articles
ListingTexts == <<"[]", "[a1]", "[a1,a2]">>
ListingOf(n) == ListingTexts[n + 1]

LISTING_TTL == 3  \* ttl: 300 in the source: three units of time

\* fetchArticles up to the cache check: a hit is returned at once
FetchArticlesCheck(topic) ==
    /\ webPc = "idle"
    /\ cacheGet(discoverListKey(topic))
    /\ IF lastCall'.value # Null
       THEN /\ webPc' = "idle"
            /\ webServed' = [topic |-> topic, listing |-> lastCall'.value, day |-> today,
                             cached |-> TRUE,
                             firstSince |-> lastIngest # NoValue /\ lastIngest.category = topic
                                            /\ ~lastIngest.read]
            /\ lastIngest' = IF lastIngest # NoValue /\ lastIngest.category = topic
                             THEN [lastIngest EXCEPT !.read = TRUE] ELSE lastIngest
       ELSE /\ webPc' = topic
            /\ UNCHANGED <<webServed, lastIngest>>
    /\ UNCHANGED listings

\* fetchArticles after a miss: read the data source, cache a listing that
\* is not empty, return it
FetchArticlesFill ==
    /\ webPc # "idle"
    /\ LET topic == webPc
           articles == ListingOf(listings[topic])
       IN  /\ IF listings[topic] > 0
              THEN cacheSet(discoverListKey(topic), articles, LISTING_TTL)
              ELSE UNCHANGED cacheVars
           /\ webServed' = [topic |-> topic, listing |-> articles, day |-> today,
                            cached |-> FALSE,
                            firstSince |-> lastIngest # NoValue /\ lastIngest.category = topic
                                           /\ ~lastIngest.read]
           /\ lastIngest' = IF lastIngest # NoValue /\ lastIngest.category = topic
                            THEN [lastIngest EXCEPT !.read = TRUE] ELSE lastIngest
    /\ webPc' = "idle"
    /\ UNCHANGED listings

\* invalidateCacheForTopic(category): no client, or a del of the two keys
\* that is swallowed when it fails
invalidateCacheForTopic(category, client) ==
    LET keys == {discoverListKey(category), discoverListKey("all")}
    IN  /\ redis' = IF client = "ok" THEN [k \in DOMAIN redis \ keys |-> redis[k]] ELSE redis
        /\ lastCall' = [op |-> "invalidateTopic", key |-> discoverListKey(category),
                        value |-> Null, remote |-> client, threw |-> "none", prev |-> <<>>]
        /\ UNCHANGED <<redisUp, memoryCache, now, lastSet>>

\* an article ingestor invocation that inserts one new article of the
\* category and then invalidates the cache for it
IngestorInserts(category) ==
    /\ listings[category] < MaxListing
    /\ listings' = [listings EXCEPT ![category] = @ + 1]
    /\ \E client \in {"null", "ok", "fail"} :
        /\ invalidateCacheForTopic(category, client)
        /\ lastIngest' = [category |-> category, day |-> today, client |-> client,
                          read |-> FALSE]
    /\ webServed' = NoValue
    /\ UNCHANGED webPc

\* midnight UTC passes
DayTurns ==
    /\ today < Len(Days)
    /\ today' = today + 1
    /\ UNCHANGED <<bfPages, bfDryRun, bfPc, bfPage, bfItem, stats, pendingVectors, attempt,
                   flushLog, flushStart, flushCalls, firstRun>>

Categories == {"finance", "market"}

InitListing ==
    /\ listings \in [Categories -> 0..1]
    /\ webPc = "idle"
    /\ webServed = NoValue
    /\ lastIngest = NoValue

IdleListing ==
    /\ listings = <<>>
    /\ webPc = "idle"
    /\ webServed = NoValue
    /\ lastIngest = NoValue

listingRest == <<hashVars, ingestVars, index, streamVars, writerVars, agVars>>

NextListing ==
    \/ \E topic \in Categories : FetchArticlesCheck(topic) /\ UNCHANGED <<listingRest, bfVars>>
    \/ FetchArticlesFill /\ UNCHANGED <<listingRest, bfVars>>
    \/ \E category \in Categories : IngestorInserts(category) /\ UNCHANGED <<listingRest, bfVars>>
    \/ DayTurns /\ UNCHANGED <<listingRest, cacheVars, listingVars>>

(***************************************************************************)
(* Retry helper of the object-store clients (lib/aws/s3-retry.ts)          *)
(***************************************************************************)
\* an error the helper never retries
IsNonRetryableNever(name) == FALSE

\* error.name === 'AccessDenied' || error.name === 'InvalidAccessKeyId'
IsNonRetryable(name) == name \in {"AccessDenied", "InvalidAccessKeyId"}

\* the for loop of withRetry from turn i on (0-based); outcomes[k] is how the
\* k-th call of fn ends, log the calls made and waits taken so far
RECURSIVE WithRetryLoop(_, _, _, _, _, _)
WithRetryLoop(outcomes, maxTries, delay, i, lastError, log) ==
    IF ~(i < maxTries) THEN [kind |-> "throw", value |-> lastError, log |-> log]
    ELSE LET called == Append(log, [event |-> "call", ms |-> 0])
             error == [name |-> outcomes[i + 1], attempt |-> i + 1]
         IN  IF outcomes[i + 1] = "ok"
             THEN [kind |-> "return", value |-> [name |-> "result", attempt |-> i + 1],
                   log |-> called]
             ELSE IF IsNonRetryable(error.name)
             THEN [kind |-> "throw", value |-> error, log |-> called]
             ELSE WithRetryLoop(outcomes, maxTries, delay, i + 1, error,
                    IF i < maxTries - 1
                    THEN Append(called, [event |-> "wait", ms |-> delay * 2 ^ i])
                    ELSE called)

\* withRetry(fn, maxRetries, delay); lastError is undefined before the loop
withRetry(outcomes, maxTries, delay) ==
    WithRetryLoop(outcomes, maxTries, delay, 0, [name |-> "undefined", attempt |-> 0], <<>>)

MaxRetriesArg == 4
RetryDelays == {1000, 300}
FnOutcomes == {"ok", "NetworkError", "AccessDenied", "InvalidAccessKeyId"}

RetryCases ==
    [kind : {"retry"}, maxTries : 0..MaxRetriesArg, delay : RetryDelays,
     outcomes : [1..MaxRetriesArg -> FnOutcomes]]

InitRetry ==
    /\ hCase \in RetryCases
    /\ hOut = NoValue
    /\ hDone = FALSE

\* one call of withRetry
CallWithRetry ==
    /\ ~hDone
    /\ hCase.kind = "retry"
    /\ hOut' = withRetry(hCase.outcomes, hCase.maxTries, hCase.delay)
    /\ hDone' = TRUE
    /\ UNCHANGED hCase

NextRetry ==
    CallWithRetry
        /\ UNCHANGED <<ingestVars, index, streamVars, writerVars, bfVars, agVars, cacheVars, listingVars>>

(***************************************************************************)
(* The backfill and the stream ingestor at work on the same article: the   *)
(* backfill's scan returned the version stored at the time, the record was *)
(* overwritten afterwards, and the change feed carries the new version.    *)
(***************************************************************************)
\* the article of url_hash k after its title was rewritten
RevisedArticle(k) == [GoodArticle(k) EXCEPT !.title = <<"b">>]

\* what the scan returned: the first version of k1, alone or with k2
ConcurrentScans ==
    {<<GoodArticle("k1")>>, <<GoodArticle("k1"), GoodArticle("k2")>>,
     <<GoodArticle("k2"), GoodArticle("k1")>>}

\* the change feed: the overwrite of k1, alone or with an insertion of k2
ConcurrentBatches ==
    {<<StreamRecord("MODIFY", TRUE, RevisedArticle("k1"))>>,
     <<StreamRecord("MODIFY", TRUE, RevisedArticle("k1")),
       StreamRecord("INSERT", TRUE, GoodArticle("k2"))>>}

InitConcurrent ==
    /\ \E items \in ConcurrentScans, cut \in 0..MaxScan :
        /\ cut <= Len(items)
        /\ bfPages = <<SubSeq(items, 1, cut), SubSeq(items, cut + 1, Len(items))>>
    /\ bfDryRun = FALSE
    /\ bfPc = "scan"
    /\ bfPage = 0
    /\ bfItem = 0
    /\ stats = [totalScanned |-> 0, totalSuccess |-> 0, totalError |-> 0,
                totalSkipped |-> 0, errors |-> <<>>]
    /\ pendingVectors = <<>>
    /\ attempt = 0
    /\ flushLog = <<>>
    /\ flushStart = NoValue
    /\ flushCalls = <<>>
    /\ firstRun = NoValue
    /\ today = 1
    /\ sBatch \in ConcurrentBatches
    /\ sPc = "record"
    /\ results = <<>>
    /\ sFaults = <<>>
    /\ embedCalls = {}
    /\ ioLog = <<>>
    /\ putCalls = {}
    /\ logWrite = "not_called"
    /\ auditLog = <<>>

\* a step of either process
NextConcurrent == NextBackfill \/ NextStream

(***************************************************************************)
(* Specifications: each runs one component, the others stay idle           *)
(***************************************************************************)
HashInit == InitHash /\ IdleIngest /\ index = <<>> /\ IdleStream /\ IdleWriter /\ IdleBackfill /\ IdleAgent /\ IdleCache /\ IdleListing
SpecHash == HashInit /\ [][NextHash]_vars

IngestInit == InitIngest /\ IdleHash /\ index = <<>> /\ IdleStream /\ IdleWriter /\ IdleBackfill /\ IdleAgent /\ IdleCache /\ IdleListing
SpecIngest == IngestInit /\ [][NextIngest]_vars

DedupInit == InitDedup /\ IdleHash /\ index = <<>> /\ IdleStream /\ IdleWriter /\ IdleBackfill /\ IdleAgent /\ IdleCache /\ IdleListing
SpecDedup == DedupInit /\ [][NextIngest]_vars

StreamInit == InitStream /\ index = <<>> /\ IdleHash /\ IdleIngest /\ IdleWriter /\ IdleBackfill /\ IdleAgent /\ IdleCache /\ IdleListing
SpecStream == StreamInit /\ [][NextStream]_vars

\* either handler, each over its own batch
BatchesInit == IngestInit \/ StreamInit
NextBatches == NextIngest \/ NextStream
SpecBatches == BatchesInit /\ [][NextBatches]_vars

WriterInit == IdleWriter /\ index = <<>> /\ IdleHash /\ IdleIngest /\ IdleStream /\ IdleBackfill /\ IdleAgent /\ IdleCache /\ IdleListing
SpecWriter == WriterInit /\ [][NextWriter]_vars

BackfillInit == InitBackfill /\ index = <<>> /\ IdleHash /\ IdleIngest /\ IdleStream /\ IdleWriter /\ IdleAgent /\ IdleCache /\ IdleListing
SpecBackfill == BackfillInit /\ [][NextBackfill]_vars

RerunInit == InitBackfill /\ index = <<>> /\ IdleHash /\ IdleIngest /\ IdleStream /\ IdleWriter /\ IdleAgent /\ IdleCache /\ IdleListing
NextRerun ==
    \/ NextBackfill
    \/ BfRunAgain /\ UNCHANGED <<hashVars, ingestVars, sBatch, sPc, results, sFaults, embedCalls,
                                 putCalls, logWrite, auditLog, writerVars, agVars,
                                 cacheVars, listingVars>>
SpecRerun == RerunInit /\ [][NextRerun]_vars

RerankInit == InitRerank /\ IdleIngest /\ index = <<>> /\ IdleStream /\ IdleWriter /\ IdleBackfill /\ IdleAgent /\ IdleCache /\ IdleListing
SpecRerank == RerankInit /\ [][NextRerank]_vars

AgentInit == InitAgent /\ IdleIngestors /\ index = <<>> /\ IdleHash /\ IdleStream /\ IdleWriter /\ IdleBackfill /\ IdleCache /\ IdleListing
SpecAgent == AgentInit /\ [][NextAgent]_vars

CacheInit == InitCache /\ IdleIngest /\ index = <<>> /\ IdleHash /\ IdleStream /\ IdleWriter /\ IdleBackfill /\ IdleAgent /\ IdleListing
SpecCache == CacheInit /\ [][NextCache]_vars

EvictInit == InitCache /\ IdleIngest /\ index = <<>> /\ IdleHash /\ IdleStream /\ IdleWriter /\ IdleBackfill /\ IdleAgent /\ IdleListing
SpecEvict == EvictInit /\ [][NextEvict]_vars

InvalidateInit == InitCache /\ IdleIngest /\ index = <<>> /\ IdleHash /\ IdleStream /\ IdleWriter /\ IdleBackfill /\ IdleAgent /\ IdleListing
RetryInit == InitRetry /\ IdleIngest /\ index = <<>> /\ IdleStream /\ IdleWriter /\ IdleBackfill /\ IdleAgent /\ IdleCache /\ IdleListing
SpecRetry == RetryInit /\ [][NextRetry]_vars

ConcurrentInit == InitConcurrent /\ index = <<>> /\ IdleHash /\ IdleIngest /\ IdleWriter /\ IdleAgent /\ IdleCache /\ IdleListing
SpecConcurrent == ConcurrentInit /\ [][NextConcurrent]_vars

\* the two call sites of generateEmbedding, each on its own input
EmbedSitesInit == BackfillInit \/ StreamInit
NextEmbedSites == NextBackfill \/ NextStream
SpecEmbedSites == EmbedSitesInit /\ [][NextEmbedSites]_vars

SpecInvalidate == InvalidateInit /\ [][NextInvalidate]_vars

ListingInit == InitListing /\ InitCache /\ IdleIngest /\ index = <<>> /\ IdleHash /\ IdleStream /\ IdleWriter /\ IdleBackfill /\ IdleAgent
SpecListing == ListingInit /\ [][NextListing]_vars

(***************************************************************************)
(* Claims                                                                  *)
(***************************************************************************)
(***************************************************************************)
(* C4: URLs that differ only by a trailing slash and/or a query string get *)
(* the same generateUrlHash, and titles that differ only by letter case    *)
(* and/or white space get the same generateTitleHash.                      *)
(***************************************************************************)
C4_SpellingsHashAlike ==
    /\ (hDone /\ hCase.kind = "urlPair") => hOut.a = hOut.b
    /\ (hDone /\ hCase.kind = "titlePair"
            /\ SameTitleUpToCaseAndSpace(hCase.a, hCase.b)) => hOut.a = hOut.b

\* the title half of C4 alone
C4_TitlesHashAlike ==
    (hDone /\ hCase.kind = "titlePair"
        /\ SameTitleUpToCaseAndSpace(hCase.a, hCase.b)) => hOut.a = hOut.b

\* the URL half of C4 without the combined spelling 'h/a/?x=1'
C4_UrlsHashAlikeUncombined ==
    (hDone /\ hCase.kind = "urlPair"
        /\ "slashquery" \notin {hCase.a, hCase.b}) => hOut.a = hOut.b

(***************************************************************************)
(* C5: the normalisation applied before hashing is idempotent, for URLs    *)
(* (generateUrlHash, articleDetailKey) and for titles.                     *)
(***************************************************************************)
C5_NormalizeIdempotent ==
    /\ (hDone /\ hCase.kind = "urlTwice") =>
            (hOut.twice = hOut.once /\ hOut.keyTwice = hOut.keyOnce)
    /\ (hDone /\ hCase.kind = "titleTwice") => hOut.twice = hOut.once

\* the title half of C5 alone
C5_TitleNormalizeIdempotent ==
    (hDone /\ hCase.kind = "titleTwice") => hOut.twice = hOut.once

\* The article processRecord is working on (the same in both of its steps)
ArticleAt(p) == processArticle(batch[p][idx[p]].item, <<p, idx[p]>>)

IsItemRecord(r) == r.dir = "prna/items/" /\ r.ext = ".json" /\ r.body = "json"

\* Invocation 1 ingested exactly two items, one after the other, without a
\* failing call, into the store that was empty
TwoItemsIngested ==
    /\ pc[1] = "done" /\ batch[2] = <<>>
    /\ Len(batch[1]) = 2
    /\ IsItemRecord(batch[1][1]) /\ IsItemRecord(batch[1][2])
    /\ \A i \in 1..2 : outcome[1][i] # "error"

(***************************************************************************)
(* C1 as stated: two raw items whose titles are equal after title          *)
(* normalisation, ingested one after the other into an empty store, give   *)
(* 'inserted', then 'skipped_duplicate', and one stored record.            *)
(***************************************************************************)
C1_RawTitlesDeduplicated ==
    (TwoItemsIngested
        /\ NormalizedTitle(batch[1][1].item.title) = NormalizedTitle(batch[1][2].item.title))
    => (outcome[1] = <<"inserted", "skipped_duplicate">> /\ Cardinality(DOMAIN store) = 1)

(***************************************************************************)
(* C1 amended: two raw items whose titles, after HTML entity decoding, are *)
(* equal after title normalisation, ingested one after the other into an   *)
(* empty store, give 'inserted', then 'skipped_duplicate', and one stored  *)
(* record.                                                                 *)
(***************************************************************************)
C1_DecodedTitlesDeduplicated ==
    (TwoItemsIngested
        /\ NormalizedTitle(decodeHtmlEntities(batch[1][1].item.title))
            = NormalizedTitle(decodeHtmlEntities(batch[1][2].item.title)))
    => (outcome[1] = <<"inserted", "skipped_duplicate">> /\ Cardinality(DOMAIN store) = 1)

\* two items of different raw titles and different URLs were deduplicated
C1_Witness ==
    /\ TwoItemsIngested
    /\ batch[1][1].item.title # batch[1][2].item.title
    /\ generateUrlHash(batch[1][1].item.link) # generateUrlHash(batch[1][2].item.link)
    /\ NormalizedTitle(decodeHtmlEntities(batch[1][1].item.title))
        = NormalizedTitle(decodeHtmlEntities(batch[1][2].item.title))
    /\ outcome[1] = <<"inserted", "skipped_duplicate">>

(***************************************************************************)
(* C2: under any interleaving of concurrent ingestion invocations, no two  *)
(* stored records share a title identity hash.                             *)
(***************************************************************************)
C2_TitleHashUnique ==
    \A h1, h2 \in DOMAIN store :
        h1 # h2 => store[h1].title_hash # store[h2].title_hash

\* C2 for the invocations that do not overlap: invocation 2 has nothing to do
C2_TitleHashUniqueAlone ==
    batch[2] = <<>> => C2_TitleHashUnique

UpsertReturned(p, result) == outcome'[p] = Append(outcome[p], result)

(***************************************************************************)
(* C3 as stated: whenever upsertArticle returns for an item whose URL hash *)
(* is that of a stored record, the stored record has been replaced by the  *)
(* new item, whether or not its title hash is in the store.                *)
(***************************************************************************)
C3_SameUrlAlwaysReplaced ==
    [][\A p \in Procs :
        ((UpsertReturned(p, "inserted") \/ UpsertReturned(p, "skipped_duplicate"))
            /\ ArticleAt(p).url_hash \in DOMAIN store)
        => store'[ArticleAt(p).url_hash] = ArticleAt(p)]_vars

(***************************************************************************)
(* C3 amended: for an item whose URL hash is that of a stored record,      *)
(* upsertArticle replaces the stored record with the new item only when    *)
(* its duplicate query finds no stored record with the item's title hash   *)
(* (and the put succeeds); when the query finds one, upsertArticle returns *)
(* 'skipped_duplicate' and leaves the store as it is.                      *)
(***************************************************************************)
C3_SameUrlReplacedUnlessTitleKnown ==
    [][\A p \in Procs :
        /\ (UpsertReturned(p, "inserted") /\ ArticleAt(p).url_hash \in DOMAIN store)
            => /\ store'[ArticleAt(p).url_hash] = ArticleAt(p)
               /\ DOMAIN store' = DOMAIN store
               /\ \A h \in DOMAIN store : h # ArticleAt(p).url_hash => store'[h] = store[h]
        /\ UpsertReturned(p, "skipped_duplicate")
            => /\ isDuplicate(store, ArticleAt(p).title_hash)
               /\ store' = store
        /\ (pc[p] = "record" /\ pc'[p] = "put")
            => ~isDuplicate(store, ArticleAt(p).title_hash)]_vars

\* a stored record was replaced by a later item of the same URL hash
C3_Witness ==
    /\ pc[1] = "done" /\ Len(batch[1]) = 2
    /\ outcome[1] = <<"inserted", "inserted">>
    /\ DOMAIN store = {generateUrlHash(batch[1][2].item.link)}
    /\ \A h \in DOMAIN store : store[h].s3Key = <<1, 2>>

\* what processRecord returns for a record when no call fails
StatusWithoutFailure(record) ==
    IF /\ EventNameOf(record) \in {"INSERT", "MODIFY"}
       /\ record.hasNewImage
       /\ record.article.url # <<>>
       /\ ~IsEmptyText(processArticleForVectors(record.article).embeddingText)
    THEN "success" ELSE "skipped"

(***************************************************************************)
(* C6: in both ingestion handlers a failing call while record i is         *)
(* processed never keeps a later record of the batch from being processed; *)
(* in the stream ingestor the failure gives exactly one 'error' outcome,   *)
(* for record i, and every other record has the outcome it has when        *)
(* nothing fails.                                                          *)
(***************************************************************************)
C6_FailuresIsolated ==
    /\ sPc \in {"record", "log", "done"}
    /\ Len(results) = Len(sFaults)
    /\ \A i \in 1..Len(sFaults) :
        /\ i <= Len(results)
        /\ results[i].status =
            IF sFaults[i] # "none" THEN "error" ELSE StatusWithoutFailure(sBatch[i])
    /\ sPc \in {"log", "done"} => Len(results) = Len(sBatch)
    /\ \A p \in Procs :
        /\ pc[p] \in {"record", "put", "invalidate", "done"}
        /\ idx[p] = Len(outcome[p]) + 1
        /\ pc[p] \in {"invalidate", "done"} => Len(outcome[p]) = Len(batch[p])

\* the article ingestor got past a failed record: its first record failed and
\* its second was stored
C6_WitnessIngest ==
    /\ pc[1] = "done" /\ Len(batch[1]) = 2
    /\ outcome[1] = <<"error", "inserted">>

\* the stream ingestor got past a failed record: the embedding call of its
\* first record failed and its second record succeeded
C6_WitnessStream ==
    /\ sPc = "done" /\ Len(sBatch) = 2
    /\ sFaults[1] = "embed" /\ results[1].status = "error"
    /\ results[2].status = "success"

(***************************************************************************)
(* C7: for a change-feed record whose event name is not INSERT or MODIFY   *)
(* the stream ingestor returns 'skipped' with a reason naming the event    *)
(* type, calls neither generateEmbedding nor putVector, and leaves the     *)
(* vector index unchanged.                                                 *)
(***************************************************************************)
C7_NonTargetEventSkipped ==
    [][(sPc = "record"
            /\ EventNameOf(sBatch[Len(results) + 1]) \notin {"INSERT", "MODIFY"})
        => LET record == sBatch[Len(results) + 1]
           IN  /\ Len(results') = Len(results) + 1
               /\ results'[Len(results')].status = "skipped"
               /\ results'[Len(results')].reason
                    = <<"Event type ", EventNameOf(record), " is not a target">>
               /\ embedCalls' = embedCalls
               /\ putCalls' = putCalls
               /\ index' = index]_vars

\* a REMOVE record and a record without event name were skipped while the
\* index held a vector
C7_Witness ==
    /\ Len(results) = 2
    /\ results[2].status = "skipped"
    /\ results[2].eventName \in {"REMOVE", "UNKNOWN"}
    /\ sBatch[2].hasNewImage
    /\ DOMAIN index # {}

(***************************************************************************)
(* C8 as stated: every invocation of the stream ingestor, an empty batch   *)
(* included, persists exactly one log entry, after all records have been   *)
(* processed.                                                              *)
(***************************************************************************)
C8_OneLogEntryAlways ==
    /\ sPc = "done" => Len(auditLog) = 1
    /\ sPc \in {"record", "log"} => auditLog = <<>>

(***************************************************************************)
(* C8 amended: every invocation of the stream ingestor persists at most    *)
(* one log entry, and only after all records of the batch have been        *)
(* processed; it persists exactly one, holding every record's outcome,     *)
(* when the batch is not empty and the write to the audit sink succeeds,   *)
(* and none for an empty batch or when that write fails.                   *)
(***************************************************************************)
C8_OneLogEntryUnlessEmptyOrFailed ==
    /\ sPc \in {"record", "log"} => auditLog = <<>>
    /\ sPc = "done" =>
        /\ Len(auditLog) = (IF Len(sBatch) > 0 /\ logWrite # "failed" THEN 1 ELSE 0)
        /\ Len(auditLog) = 1 =>
            /\ auditLog[1].totalRecords = Len(sBatch)
            /\ auditLog[1].records = results

\* a batch of two with one failed record was logged in one entry
C8_Witness ==
    /\ sPc = "done" /\ Len(sBatch) = 2
    /\ Len(auditLog) = 1
    /\ auditLog[1].failed = 1 /\ auditLog[1].succeeded = 1

(***************************************************************************)
(* C9: after any sequence of completed putVector / putVectorsBatch calls   *)
(* the vector index holds exactly one entry per key ever put, carrying the *)
(* embedding and metadata of the most recently completed put of that key.  *)
(***************************************************************************)
C9_IndexHoldsLatestPut ==
    ~putFailed =>
        /\ DOMAIN index = DOMAIN lastPut
        /\ \A k \in DOMAIN lastPut :
            /\ index[k].embedding = lastPut[k].embedding
            /\ index[k].metadata = lastPut[k].metadata

\* three keys were put, one of them again with another embedding
C9_Witness ==
    /\ ~putFailed
    /\ DOMAIN index = WriterKeys
    /\ index["k1"].embedding = "e2"
    /\ index["k2"].embedding = "e1"
    /\ index["k3"].embedding = "e1"

\* every vector is in the index with its embedding and metadata
AllPresent(idxmap, vectors) ==
    \A i \in 1..Len(vectors) :
        /\ vectors[i].key \in DOMAIN idxmap
        /\ idxmap[vectors[i].key].embedding = vectors[i].embedding
        /\ idxmap[vectors[i].key].metadata = vectors[i].metadata

(***************************************************************************)
(* C10: when a flushVectorsBatch call's put fails on attempts 1 and 2 and  *)
(* succeeds on attempt 3, totalError and totalSuccess are what they were   *)
(* before the flush, stats.errors has no new entry, and every vector of    *)
(* the batch is in the index.                                              *)
(***************************************************************************)
C10_FlushThirdAttemptNetsZero ==
    [][(flushLog # <<"fail", "fail", "ok">> /\ flushLog' = <<"fail", "fail", "ok">>)
        => /\ stats'.totalError = flushStart.totalError
           /\ stats'.totalSuccess = flushStart.totalSuccess
           /\ stats'.errors = flushStart.errors
           /\ AllPresent(index', flushStart.vectors)]_vars

\* a flush of a full batch went fail, fail, ok and the run went on to finish
C10_Witness ==
    /\ flushLog = <<"fail", "fail", "ok">>
    /\ bfPc = "done"
    /\ Len(flushStart.vectors) = VECTORS_BATCH_SIZE
    /\ stats.totalSuccess = VECTORS_BATCH_SIZE
    /\ stats.totalError = 0

\* the run is between flushes: no flushVectorsBatch call is under way
BetweenFlushes == bfPc \in {"scan", "item", "done"}

\* a flushVectorsBatch call returns on this step after its last attempt failed
FlushExhausted ==
    /\ bfPc \in {"flush", "finalflush"}
    /\ bfPc' \notin {"flush", "finalflush"}
    /\ flushLog' = Append(flushLog, "fail")

(***************************************************************************)
(* C11: in a backfill that is not a dry run, between flushes totalSuccess  *)
(* is the number of vectors the run has written to the index plus the      *)
(* number of vectors in the pending buffer; a flush that exhausts its      *)
(* retries takes the batch size from totalSuccess and adds it to           *)
(* totalError; at termination totalSuccess is the number of vectors the    *)
(* run wrote.  The index is empty when the run starts, so what the run     *)
(* wrote is what the index holds.                                          *)
(***************************************************************************)
C11_SuccessCountsWrittenPlusPending ==
    /\ [](~bfDryRun /\ BetweenFlushes
            => stats.totalSuccess = Cardinality(DOMAIN index) + Len(pendingVectors))
    /\ [](~bfDryRun /\ bfPc = "done" => stats.totalSuccess = Cardinality(DOMAIN index))
    /\ [][FlushExhausted
            => /\ stats'.totalSuccess = stats.totalSuccess - Len(pendingVectors)
               /\ stats'.totalError = stats.totalError + Len(pendingVectors)]_vars

\* a run ended whose first flush of a full batch exhausted its retries and
\* whose final flush wrote one vector
C11_Witness ==
    /\ ~bfDryRun /\ bfPc = "done"
    /\ stats.totalScanned = 3
    /\ stats.totalError = VECTORS_BATCH_SIZE
    /\ stats.totalSuccess = 1
    /\ Cardinality(DOMAIN index) = 1

\* a backfill run that counted no error
RanClean(st) == st.totalError = 0

(***************************************************************************)
(* C12: when the vector backfill is run twice in sequence with the same    *)
(* options over the same primary store, the embedding being a function of  *)
(* the text and neither run counting an error, the vector index after the  *)
(* second run (keys, embeddings, metadata) is the index after the first.   *)
(***************************************************************************)
C12_SecondRunLeavesIndex ==
    (/\ firstRun # NoValue
     /\ bfPc = "done"
     /\ RanClean(firstRun.stats)
     /\ RanClean(stats))
        => index = firstRun.index

\* a second run, on a later day, has rewritten the three vectors of the first
C12_Witness ==
    /\ firstRun # NoValue
    /\ bfPc = "done"
    /\ ~bfDryRun
    /\ today = 2
    /\ RanClean(firstRun.stats) /\ firstRun.stats.totalSuccess = 3
    /\ RanClean(stats) /\ stats.totalSuccess = 3
    /\ Cardinality(DOMAIN index) = 3

\* the elements of a sequence
Range(seq) == {seq[i] : i \in 1..Len(seq)}

(***************************************************************************)
(* C15: for fixed documents, similarities and document cap, the reranked   *)
(* result under a threshold t2 >= t1 is a subset of the reranked result    *)
(* under t1.                                                               *)
(***************************************************************************)
C15_RerankMonotone ==
    (hDone /\ hCase.kind = "rerank") => Range(hOut.high) \subseteq Range(hOut.low)

\* raising the threshold dropped a document while the cap cut the result
\* under the lower threshold
C15_Witness ==
    /\ hDone /\ hCase.kind = "rerank"
    /\ hCase.t1 < hCase.t2
    /\ Len(hCase.sims) > hCase.maxDocs
    /\ Len(hOut.low) = hCase.maxDocs
    /\ hOut.high # <<>>
    /\ Len(hOut.high) < Len(hOut.low)

\* the queries of the run and, for the sub-queries executed so far, what
\* searchArticles returns when nothing fails
AgQueries == QueriesOf(agIn)
AgFound(i) == searchArticles(agIn.hits[AgQueries[i]], store)

\* the lists of the sub-queries that did not fail, concatenated in query order
RECURSIVE NonFailingConcat(_)
NonFailingConcat(n) ==
    IF n = 0 THEN <<>>
    ELSE NonFailingConcat(n - 1) \o (IF agFailed[n] THEN <<>> ELSE AgFound(n))

\* the first position of a document with the given id
FirstWithId(docs, id) ==
    CHOOSE i \in 1..Len(docs) :
        /\ DocId(docs[i]) = id
        /\ \A j \in 1..(i - 1) : DocId(docs[j]) # id

\* the retriever chain of a quality run has merged its search results
MergedQualityRun ==
    /\ agIn # NoValue
    /\ agIn.mode = "quality"
    /\ agPc \in {"context", "respond", "ended", "llm_failed", "retrieval_failed"}
    /\ ~IsNotNeeded(agIn.questions[1])
    /\ Len(agSearch) = Len(AgQueries)

(***************************************************************************)
(* C13: in multi-query mode, whatever subset of the sub-queries throws,    *)
(* the merged list is the concatenation of the non-failing result lists    *)
(* in query order from which every document whose article id (URL when it  *)
(* has none) was seen before is removed: it holds no two documents with    *)
(* the same id, each of its documents is the first one with its id in the  *)
(* concatenation, in the order of those first occurrences, and no id of    *)
(* the concatenation is missing.                                           *)
(***************************************************************************)
C13_MergeIsFirstSeenUnion ==
    MergedQualityRun =>
        LET all == NonFailingConcat(Len(agSearch))
        IN  /\ \A i, j \in 1..Len(agDocs) :
                agDocs[i].metadata.article_id = agDocs[j].metadata.article_id => i = j
            /\ \A i \in 1..Len(agDocs) :
                /\ \E k \in 1..Len(all) : DocId(all[k]) = DocId(agDocs[i])
                /\ agDocs[i] = all[FirstWithId(all, DocId(agDocs[i]))]
            /\ \A i, j \in 1..Len(agDocs) :
                i < j => FirstWithId(all, DocId(agDocs[i])) < FirstWithId(all, DocId(agDocs[j]))
            /\ \A k \in 1..Len(all) : \E i \in 1..Len(agDocs) : DocId(agDocs[i]) = DocId(all[k])

\* sub-query 2 threw; the lists of sub-queries 1 and 3 share a document and
\* were merged into three documents
C13_Witness ==
    /\ MergedQualityRun
    /\ agFailed = <<FALSE, TRUE, FALSE>>
    /\ Len(agSearch[1]) = 2 /\ agSearch[2] = <<>> /\ Len(agSearch[3]) = 2
    /\ Len(agDocs) = 3
    /\ agDocs[3] = agSearch[3][2]

\* the hits queryVectors returned to the i-th executed sub-query
AgHits(i) == queryVectors(agIn.hits[AgQueries[i]])

(***************************************************************************)
(* C14: for every list of hits queryVectors returns, searchArticles        *)
(* returns as many documents, the i-th with the article id of the i-th     *)
(* hit; a hit with no record in the primary store gives a document built   *)
(* from the hit's metadata alone, its pageContent being the title.         *)
(***************************************************************************)
C14_OneDocumentPerHit ==
    agIn # NoValue =>
        \A i \in 1..Len(agSearch) :
            ~agFailed[i] =>
                /\ Len(agSearch[i]) = Len(AgHits(i))
                /\ \A j \in 1..Len(agSearch[i]) :
                    LET doc == agSearch[i][j]
                        hit == AgHits(i)[j]
                    IN  /\ doc.metadata.article_id = hit.metadata.article_id
                        /\ hit.metadata.article_id \notin DOMAIN store =>
                            /\ doc.pageContent = hit.metadata.title
                            /\ doc.metadata = [title      |-> hit.metadata.title,
                                               url        |-> hit.metadata.url,
                                               category   |-> hit.metadata.category,
                                               pub_date   |-> hit.metadata.pub_date,
                                               distance   |-> hit.distance,
                                               article_id |-> hit.metadata.article_id]

\* a search returned a hydrated document followed by the document of a hit
\* whose article the store does not hold
C14_Witness ==
    /\ agIn # NoValue
    /\ Len(agSearch) >= 1 /\ ~agFailed[1]
    /\ Len(agSearch[1]) = 2
    /\ agSearch[1][1].metadata.article_id = "a" /\ "a" \in DOMAIN store
    /\ agSearch[1][1].pageContent = <<"T", "a", "\n", "\n", "a">>
    /\ agSearch[1][2].metadata.article_id = "b" /\ "b" \notin DOMAIN store
    /\ agSearch[1][2].pageContent = <<"t", "b">>

(***************************************************************************)
(* C16: when the rewriter's output is the sentinel 'not_needed' (the       *)
(* parsed question in single-query mode, the first question block in       *)
(* multi-query mode) the retrieval returns no document and executeSearch   *)
(* is never called: no query embedding, no vector query and no read of     *)
(* the primary store is issued.                                            *)
(***************************************************************************)
C16_SentinelSkipsRetrieval ==
    (agIn # NoValue /\ agIn.questions[1] = Sentinel) =>
        /\ agCalls = {}
        /\ agSearch = <<>>
        /\ agDocs = <<>>
        /\ agSources = <<>>
        /\ agPc \in {"rewrite", "context", "respond", "ended", "llm_failed"}

\* a quality run whose first question block was the sentinel was answered
C16_Witness ==
    /\ agIn # NoValue
    /\ agIn.mode = "quality"
    /\ agIn.questions = <<Sentinel, "q2", "q3">>
    /\ agIn.hits["q2"] # <<>>
    /\ agPc = "ended"
    /\ agEvents = <<"sources", "response", "end">>

\* a single-query run whose question was the sentinel was answered
C16_WitnessSingle ==
    /\ agIn # NoValue
    /\ agIn.mode = "balanced"
    /\ agIn.questions = <<Sentinel>>
    /\ agPc = "ended"

\* the run is over: the stream of events has ended or has thrown
RunOver == agIn # NoValue /\ agPc \in {"ended", "llm_failed", "retrieval_failed"}

(***************************************************************************)
(* C17: every run emits 'sources' exactly once, before any 'response',     *)
(* and 'end' exactly once, after the last 'response'; nothing follows      *)
(* 'end'.                                                                  *)
(***************************************************************************)
C17_SourcesResponsesEnd ==
    RunOver =>
        /\ Len(agEvents) >= 2
        /\ agEvents[1] = "sources"
        /\ agEvents[Len(agEvents)] = "end"
        /\ \A i \in 2..(Len(agEvents) - 1) : agEvents[i] = "response"

\* what holds of every run, failed ones included: the events emitted so far
\* are 'sources', then 'response' events, then at most one 'end'
C17_EventsInOrder ==
    agIn # NoValue =>
        \A i \in 1..Len(agEvents) :
            /\ agEvents[i] = "sources" <=> i = 1
            /\ agEvents[i] = "end" => (i = Len(agEvents) /\ agPc = "ended")

(***************************************************************************)
(* C18: the failure of a retrieval-stage call made while answering (the    *)
(* embedding, vector query or hydration of a sub-query, or the             *)
(* embedDocuments / embedQuery call of the rerank) is absorbed as an empty *)
(* contribution: the answering chain is not failed by it.                  *)
(***************************************************************************)
C18_RetrievalFailuresAbsorbed ==
    agPc # "retrieval_failed"

\* what holds of the sub-queries: a failed one contributes the empty list
\* and the chain goes on to the context
C18_SubQueryFailuresAbsorbed ==
    agIn # NoValue =>
        /\ \A i \in 1..Len(agSearch) : agFailed[i] => agSearch[i] = <<>>
        /\ agPc = "retrieval_failed" => {"embedDocuments", "embedQuery"} \subseteq agCalls

\* the last call was a cacheGet that directly followed a cacheSet of its key
GetRightAfterSet ==
    /\ lastCall.op = "get"
    /\ lastCall.prev # <<>>
    /\ lastCall.prev[1].key = lastCall.key

(***************************************************************************)
(* C19: a cacheSet(key, value) followed at once by cacheGet(key) in the    *)
(* same process returns the value set, whether the remote tier is          *)
(* available, unavailable (null client) or failing on either call, and     *)
(* however full the local map was before the set.                          *)
(***************************************************************************)
C19_GetAfterSetReturnsValue ==
    GetRightAfterSet => lastCall.value = lastCall.prev[1].value

\* the same round trip when the remote tier did not fail on the set
C19_GetAfterStoredSetReturnsValue ==
    (GetRightAfterSet /\ lastCall.prev[1].remote # "fail")
        => lastCall.value = lastCall.prev[1].value

\* more than the ttl of the last cacheSet of the key has elapsed at a cacheGet
GetAfterTtl ==
    /\ lastCall.op = "get"
    /\ lastCall.key \in DOMAIN lastSet
    /\ now - lastSet[lastCall.key].at > lastSet[lastCall.key].ttl

(***************************************************************************)
(* C20: once more than ttl seconds have passed since cacheSet(key, value,  *)
(* {ttl}), with no later set of the key, cacheGet(key) returns a miss:     *)
(* the local tier honours the ttl of the entry as the remote tier does.    *)
(***************************************************************************)
C20_MissAfterTtl ==
    GetAfterTtl => lastCall.value = Null

\* the keys of the local tier
MemoryKeys == {memoryCache[i].key : i \in 1..Len(memoryCache)}

\* the local-tier step of the last call has been performed
LocalStepDone ==
    LET i == MemoryIndex(memoryCache, lastCall.key, 1)
    IN  /\ lastCall.op = "get" =>
            lastCall.value = IF i = 0 THEN Null ELSE JsonParse(memoryCache[i].data)
        /\ lastCall.op = "set" =>
            i # 0 /\ memoryCache[i].data = JsonStringify(lastCall.value)
        /\ lastCall.op = "invalidate" => i = 0
        /\ lastCall.op = "invalidatePattern" =>
            LET regex == NewRegExp(RegexSource(lastCall.key))
            IN  regex.valid /\ \A k \in MemoryKeys : ~RegexTest(regex, k)

(***************************************************************************)
(* C21: when the remote call of cacheGet, cacheSet, cacheInvalidate or     *)
(* cacheInvalidatePattern throws, the operation still performs its         *)
(* local-tier step and returns normally.                                   *)
(***************************************************************************)
C21_RemoteFailureStillLocalAndNormal ==
    lastCall.remote = "fail" => (lastCall.threw = "none" /\ LocalStepDone)

\* what holds: the remote error itself is swallowed; the call throws only
\* when the RegExp constructor rejects the pattern, and otherwise has
\* performed its local step
C21_ThrowsOnlyTheRegExpError ==
    lastCall.remote = "fail" =>
        IF lastCall.threw = "none" THEN LocalStepDone
        ELSE /\ lastCall.op = "invalidatePattern"
             /\ ~NewRegExp(RegexSource(lastCall.key)).valid

\* the last call was a cacheInvalidatePattern that returned
PatternReturned == lastCall.op = "invalidatePattern" /\ lastCall.threw = "none"

(***************************************************************************)
(* C28: when cacheInvalidatePattern(p) returns, no key matching the glob p *)
(* remains in the local map; if no remote call failed, none remains in the *)
(* remote tier; and the local regex matches exactly the keys the glob      *)
(* matches.                                                                *)
(***************************************************************************)
C28_PatternGoneFromBothTiers ==
    PatternReturned =>
        /\ \A k \in MemoryKeys : ~GlobMatch(lastCall.key, k)
        /\ lastCall.remote = "ok" => \A k \in DOMAIN redis : ~GlobMatch(lastCall.key, k)
        /\ \A k \in PatternKeys :
            RegexTest(NewRegExp(RegexSource(lastCall.key)), k) <=> GlobMatch(lastCall.key, k)

\* what holds: the remote tier is cleared of the glob's keys when no remote
\* call failed, and the local map of the keys the regex matches
C28_EachTierClearedByItsOwnMatcher ==
    PatternReturned =>
        /\ lastCall.remote = "ok" => \A k \in DOMAIN redis : ~GlobMatch(lastCall.key, k)
        /\ \A k \in MemoryKeys : ~RegexTest(NewRegExp(RegexSource(lastCall.key)), k)

(***************************************************************************)
(* C22: after the article ingestor has inserted a new article of category  *)
(* c and its cache invalidation for c has completed successfully, the next *)
(* listing read for topic c on the same UTC date does not return a listing *)
(* that was cached before the insertion.  The web process and the         *)
(* ingestor share the remote tier.                                         *)
(***************************************************************************)
C22_NextReadAfterInvalidationIsFresh ==
    (/\ redisUp
     /\ webServed # NoValue
     /\ webServed.firstSince
     /\ lastIngest.client = "ok"
     /\ lastIngest.day = webServed.day)
        => webServed.listing = ListingOf(listings[webServed.topic])

\* what holds: the key the ingestor deletes is the key the listing is
\* cached under, and the remote tier no longer holds it
C22_RemoteKeyDeleted ==
    (lastCall.op = "invalidateTopic" /\ lastCall.remote = "ok")
        => /\ lastCall.key = <<"discover:", lastIngest.category, ":", Days[lastIngest.day]>>
           /\ lastCall.key \notin DOMAIN redis

\* the records reported as failed because generateEmbedding threw
EmbeddingFailures ==
    {stats.errors[i].urlHash : i \in {j \in 1..Len(stats.errors) :
                                        stats.errors[j].error \in {"embed", "rate"}}}
    \cup {results[i].urlHash : i \in {j \in 1..Len(results) :
                                        results[j].status = "error" /\ sFaults[j] = "embed"}}

\* the positions of ioLog at which generateEmbedding was called for the record
CallsFor(urlHash) ==
    {i \in 1..Len(ioLog) : ioLog[i].event = "call" /\ ioLog[i].record = urlHash}

\* the positions of ioLog at which the rate-limit wait for the record was taken
CooldownsFor(urlHash) ==
    {i \in 1..Len(ioLog) : ioLog[i] = Sleep(urlHash, RATE_LIMIT_WAIT_MS)}

(***************************************************************************)
(* C23: a transient failure of an embedding call is retried for the same   *)
(* record before the record is reported as failed, in the stream ingestor  *)
(* and in the backfill; after the cooldown of a 429 the same record is     *)
(* tried again.                                                            *)
(***************************************************************************)
C23_EmbeddingFailureRetried ==
    \A h \in EmbeddingFailures :
        /\ Cardinality(CallsFor(h)) >= 2
        /\ \A i \in CooldownsFor(h) : \E j \in CallsFor(h) : j > i

\* what holds: the wait after a 429 is followed by no further call for the
\* record, which stays reported as failed
C23_FailureReportedAfterOneCall ==
    \A h \in EmbeddingFailures :
        \A i \in CooldownsFor(h) : \A j \in CallsFor(h) : j < i

\* this step is one put attempt of flushVectorsBatch and what follows it
FlushAttemptStep == Len(flushLog') = Len(flushLog) + 1

\* flushVectorsBatch is under way
InFlush == bfPc \in {"flush", "finalflush"}

RetryCalls == {j \in 1..Len(hOut.log) : hOut.log[j].event = "call"}

\* the first call of fn, among those allowed, that succeeds or fails with an
\* error that is not retried; 0 when there is none
FirstDecisive ==
    LET decisive == {k \in 1..hCase.maxTries :
                        hCase.outcomes[k] \in {"ok", "AccessDenied", "InvalidAccessKeyId"}}
    IN  IF decisive = {} THEN 0 ELSE CHOOSE k \in decisive : \A l \in decisive : k <= l

(***************************************************************************)
(* C26: withRetry(fn, maxRetries, delay) calls fn at most maxRetries       *)
(* times; it returns the result of the first successful call without       *)
(* further calls; an error named AccessDenied or InvalidAccessKeyId is     *)
(* rethrown at once, with no further attempt and no delay; otherwise it    *)
(* waits delay * 2^i after failed attempt i (0-based) except after the     *)
(* last one, and finally throws the error of the last attempt.             *)
(***************************************************************************)
C26_WithRetryContract ==
    (hDone /\ hCase.kind = "retry") =>
        LET calls == Cardinality(RetryCalls)
            stop == FirstDecisive
        IN  /\ calls <= hCase.maxTries
            /\ calls = IF stop # 0 THEN stop ELSE hCase.maxTries
            /\ Len(hOut.log) = IF calls = 0 THEN 0 ELSE 2 * calls - 1
            /\ \A j \in 1..Len(hOut.log) :
                hOut.log[j] = IF j % 2 = 1 THEN [event |-> "call", ms |-> 0]
                              ELSE [event |-> "wait", ms |-> hCase.delay * 2 ^ ((j \div 2) - 1)]
            /\ (stop # 0 /\ hCase.outcomes[stop] = "ok") =>
                /\ hOut.kind = "return"
                /\ hOut.value = [name |-> "result", attempt |-> stop]
            /\ (stop # 0 /\ hCase.outcomes[stop] # "ok") =>
                /\ hOut.kind = "throw"
                /\ hOut.value = [name |-> hCase.outcomes[stop], attempt |-> stop]
            /\ (stop = 0 /\ hCase.maxTries > 0) =>
                /\ hOut.kind = "throw"
                /\ hOut.value = [name |-> hCase.outcomes[hCase.maxTries],
                                 attempt |-> hCase.maxTries]

\* a call with maxRetries 3 whose third attempt is rejected as AccessDenied
\* after two retried failures
C26_Witness ==
    /\ hDone
    /\ hCase.kind = "retry"
    /\ hCase.maxTries = 3
    /\ hOut.kind = "throw"
    /\ hOut.value = [name |-> "AccessDenied", attempt |-> 3]
    /\ Len(hOut.log) = 5

\* the stream ingestor has upserted the vector of the rewritten k1 and both
\* processes have finished
BothFinishedAfterOverwrite ==
    /\ bfPc = "done"
    /\ sPc = "done"
    /\ results # <<>>
    /\ results[1].urlHash = "k1"
    /\ results[1].status = "success"

\* the embedding of an article as both processes compute it
EmbeddingOfArticle(article) == EmbeddingOf(processArticleForVectors(article).embeddingText)

(***************************************************************************)
(* C24: the backfill scans version v1 of an article, the record is         *)
(* overwritten to v2, the stream ingestor upserts the v2 vector and the    *)
(* backfill flushes its buffered v1 vector; once both have finished the    *)
(* index entry of the key is the embedding of v2, the latest stored        *)
(* version.                                                                *)
(***************************************************************************)
C24_IndexHoldsLatestVersion ==
    BothFinishedAfterOverwrite =>
        /\ "k1" \in DOMAIN index
        /\ index["k1"].embedding = EmbeddingOfArticle(RevisedArticle("k1"))

\* what holds: the entry is that of the version written last, v1 or v2
C24_IndexHoldsEitherVersion ==
    BothFinishedAfterOverwrite =>
        /\ "k1" \in DOMAIN index
        /\ index["k1"].embedding \in {EmbeddingOfArticle(GoodArticle("k1")),
                                      EmbeddingOfArticle(RevisedArticle("k1"))}

\* the categories of the records of p's batch that returned 'inserted'
InsertedCategories(p) ==
    {batch[p][i].item.category :
        i \in {j \in 1..Len(outcome[p]) : outcome[p][j] = "inserted"}}

\* the categories invalidateCacheForTopic was called for by invocation p
InvalidatedCategories(p) == {inval[p][i] : i \in 1..Len(inval[p])}

\* C29: in one article-ingestor invocation no invalidation is issued before
\* every record of the batch was processed, each category is invalidated at
\* most once, only categories of records that returned 'inserted' are
\* invalidated, and when the handler returns every such category was
\* invalidated: skipped, filtered and failed records contribute none
C29_InvalidationsAreInsertedCategories ==
    \A p \in Procs :
        /\ pc[p] \in {"record", "put"} => inval[p] = <<>>
        /\ \A i, j \in 1..Len(inval[p]) : inval[p][i] = inval[p][j] => i = j
        /\ InvalidatedCategories(p) \subseteq InsertedCategories(p)
        /\ pc[p] = "done" => InvalidatedCategories(p) = InsertedCategories(p)

\* an invocation returned after two inserted records of one category and
\* another after an inserted and a failed record
C29_Witness ==
    /\ pc[1] = "done"
    /\ Len(batch[1]) = 2
    /\ \/ outcome[1] = <<"inserted", "inserted">> /\ Len(inval[1]) = 1
       \/ outcome[1] = <<"inserted", "error">> /\ Len(inval[1]) = 1
       \/ outcome[1] = <<"skipped_duplicate", "inserted">> /\ Len(inval[1]) = 1

\* the keys of the local map before and after the step
KeysBefore == {memoryCache[i].key : i \in 1..Len(memoryCache)}
KeysAfter == {memoryCache'[i].key : i \in 1..Len(memoryCache')}

\* the entries a cacheSet step removed from the local map
EvictedEntries ==
    {i \in 1..Len(memoryCache) : memoryCache[i].key \notin KeysAfter}

\* C27: whenever cacheSet evicts from the full local map it removes exactly
\* one entry, that entry has the oldest stored timestamp of the map, and the
\* key being set was not already in the map
C27_EvictsOldestTimestampOnlyForNewKey ==
    [][(lastCall'.op = "set" /\ EvictedEntries # {}) =>
        /\ Cardinality(EvictedEntries) = 1
        /\ \A i \in EvictedEntries, j \in 1..Len(memoryCache) :
                memoryCache[i].timestamp <= memoryCache[j].timestamp
        /\ lastCall'.key \notin KeysBefore]_vars

\* cacheSet removes an entry only from a full map, and then exactly the
\* first entry in insertion order
C27_EvictsFirstInserted ==
    [][(lastCall'.op = "set" /\ EvictedEntries # {}) =>
        /\ Len(memoryCache) >= MEMORY_CACHE_MAX_SIZE
        /\ EvictedEntries = {1}]_vars

\* the records whose generateEmbedding call returned an embedding
EmbeddedRecords ==
    {ioLog[i].record :
        i \in {j \in 1..Len(ioLog) : ioLog[j].event = "call" /\ ~ioLog[j].failed}}

\* the places of the batches handed to flushVectorsBatch that hold the
\* vector of the record
FlushedAt(urlHash) ==
    {<<c, i>> \in (1..Len(flushCalls)) \X (1..VECTORS_BATCH_SIZE) :
        i <= Len(flushCalls[c]) /\ flushCalls[c][i].key = urlHash}

(***************************************************************************)
(* C30: no counter of a backfill run is ever negative, and when the run    *)
(* has ended totalSuccess + totalError + totalSkipped is totalScanned, the *)
(* pending buffer is empty, and the vector of every record that was        *)
(* embedded was handed to flushVectorsBatch in exactly one call, whether   *)
(* the flush wrote the batch or exhausted its retries.                     *)
(***************************************************************************)
C30_CountersBalanceAndEachVectorFlushedOnce ==
    /\ stats.totalScanned >= 0 /\ stats.totalSuccess >= 0
    /\ stats.totalError >= 0 /\ stats.totalSkipped >= 0
    /\ bfPc = "done" =>
        /\ stats.totalSuccess + stats.totalError + stats.totalSkipped = stats.totalScanned
        /\ pendingVectors = <<>>
        /\ \A h \in EmbeddedRecords : Cardinality(FlushedAt(h)) = 1

\* a run ended that skipped an empty record, embedded two, lost both to a
\* flush that exhausted its retries, and called flushVectorsBatch once
C30_Witness ==
    /\ ~bfDryRun /\ bfPc = "done"
    /\ stats.totalScanned = 3
    /\ stats.totalSkipped = 1
    /\ stats.totalError = 2
    /\ stats.totalSuccess = 0
    /\ Cardinality(EmbeddedRecords) = 2
    /\ Len(flushCalls) = 1
    /\ flushLog = <<"fail", "fail", "fail">>

====
